---------------------------- MODULE Spec2Model ----------------------------
(***************************************************************************)
(* Model of the recall and rank-fusion engine of hub/search.py: time-range *)
(* parsing, project-tag classification, the lexical and the semantic       *)
(* search, cosine, the merge of lexical and semantic hits, conversation    *)
(* grouping and the query pipeline of main(); of the retrying ollama_embed *)
(* of hub/semantic_index.py; and of the ledger of hub/action_log.py.       *)
(*                                                                         *)
(* Conventions                                                             *)
(*   - a text is a sequence of one-character strings;                      *)
(*   - a score is an integer number of 1/10000 (the code rounds every      *)
(*     score to 4 decimals), a raw bm25 value an integer number of tenths; *)
(*   - a Python call that may raise returns a record with an "ok" field.   *)
(***************************************************************************)
EXTENDS Integers, Sequences, FiniteSets, TLC

VARIABLES
    pc,          \* position of the modelled call/pipeline
    tags_file,   \* content of project_tags.json (TAGS_RULES)
    fts_rows,    \* rows returned by fts_search
    sem_rows,    \* hits returned by semantic_search
    project,     \* args.project (None when absent)
    merged,      \* result of _merge_results
    g_convos,    \* args.convos
    g_per,       \* args.per_convo
    grouped,     \* result of _group_by_conversation
    since_arg,   \* args.since: Absent or Given(text)
    until_arg,   \* args.until: Absent or Given(text)
    since,       \* _parse_time(args.since)
    until,       \* _parse_time(args.until)
    top,         \* args.top
    group,       \* args.group
    provider,    \* what the embedding provider does for this query
    ev_status,   \* status of the ledger row of the query's log_event
    out,         \* what main() printed (NoOutput when nothing)
    embed_calls, \* calls of ollama_embed made by the query
    query,       \* the query text given to fts_search
    role,        \* the role filter (None when absent)
    match,       \* the MATCH parameter fts_search binds
    limit,       \* limit of fts_search
    docs,        \* rows of semantic.sqlite (vecs JOIN docs)
    min_len,     \* min_len of semantic_search
    qv,          \* the query vector; first argument of cosine
    vec,         \* second argument of cosine
    cos,         \* result of cosine
    events,      \* rows of the ledger table events, by id
    handles,     \* open log_event contexts, innermost last
    exc,         \* the exception in flight (NoExc when none)
    last,        \* the ledger operation just performed
    job,         \* whose ollama_embed runs: "query" or "backfill"
    retries,     \* retries of the backfill's ollama_embed
    attempt,     \* its loop variable i
    slept,       \* the time.sleep() durations of its failed attempts
    vecs,        \* committed rows of vecs in semantic.sqlite: id -> writing run
    txn,         \* rows the backfill has written since its last commit
    candidates,  \* rows of the backfill's candidate query
    cursor,      \* position of the backfill's loop in candidates
    embedded,    \* the backfill's counter n
    run,         \* number of the backfill run (0 before the first)
    had,         \* vecs as the candidate query of the run saw it
    tried,       \* ids the run has called ollama_embed for, in order
    warned,      \* ids the run has printed "WARN embedding failed" for
    text_arg,    \* the text given to _detect_projects
    classified,  \* the texts classified so far, each with what it returned
    merge_i,     \* position of _merge_results in the loop it is in
    cli_scored,  \* scored of main() of semantic_search.py, sorted
    cli_out,     \* its list out
    printed,     \* what it has printed, one entry per print()
    ok_calls     \* the `results` of its calls of ev.ok(), in order

vars == <<pc, tags_file, fts_rows, sem_rows, project, merged, g_convos, g_per,
          grouped, since_arg, until_arg, since, until, top, group, provider,
          ev_status, out, embed_calls, query, role, match, limit, docs, min_len,
          qv,
          vec, cos, events, handles, exc, last, job, retries, attempt, slept,
          vecs, txn, candidates, cursor, embedded, run, had, tried, warned,
          text_arg, classified, merge_i, cli_scored, cli_out, printed, ok_calls>>

None == "None"

(***************************************************************************)
(* Sequence helpers.                                                       *)
(***************************************************************************)
Range(s) == {s[i] : i \in 1..Len(s)}

Contains(s, x) == \E i \in 1..Len(s) : s[i] = x

Prefix(s, n) == SubSeq(s, 1, IF n < Len(s) THEN n ELSE Len(s))

Max2(a, b) == IF a >= b THEN a ELSE b

(***************************************************************************)
(* str.lower() and the substring test `pat in low`.                        *)
(***************************************************************************)
LowerChar(c) ==
    CASE c = "A" -> "a" [] c = "D" -> "d" [] c = "E" -> "e" [] c = "H" -> "h"
      [] c = "I" -> "i" [] c = "L" -> "l" [] c = "O" -> "o" [] c = "R" -> "r"
      [] c = "S" -> "s" [] OTHER -> c

\* The text left in the case it is written in.
LowerNot(s) == s

Lower(s) == [i \in 1..Len(s) |-> LowerChar(s[i])]

IsSubstring(p, s) ==
    \E k \in 0..(Len(s) - Len(p)) : \A i \in 1..Len(p) : s[k + i] = p[i]

(***************************************************************************)
(* The project tag rule file, project_tags.json, as parsed JSON.           *)
(*   file     [kind, projects]  kind: "absent" | "invalid" (not JSON) |    *)
(*                              "array" (top level is no object) | "object"*)
(*   projects [t, n, rules]     t: "missing" | "null" | "num" | "str" |    *)
(*                              "obj" | "list"; n: the number of characters*)
(*                              or keys of a str/obj; rules: a list's items*)
(*   rule     [t, tag, patterns] t: "obj" or the JSON type of a non-object *)
(*   patterns [t, pats]         t: "missing" | "null" | "num" | "str" |    *)
(*                              "list"; a str iterates as its characters   *)
(*   pat      [t, s, n]         t: "str" | "num" | "null"                  *)
(***************************************************************************)
Pat(s) == [t |-> "str", s |-> s, n |-> 0]

PatNum(n) == [t |-> "num", s |-> <<>>, n |-> n]

PatList(pats) == [t |-> "list", pats |-> pats]

NoPatterns(t) == [t |-> t, pats |-> <<>>]

Rule(tag, patterns) == [t |-> "obj", tag |-> tag, patterns |-> patterns]

NotARule(t) == [t |-> t, tag |-> None, patterns |-> NoPatterns("missing")]

Projects(rules) == [t |-> "list", n |-> Len(rules), rules |-> rules]

NotAList(t, n) == [t |-> t, n |-> n, rules |-> <<>>]

FileObject(projects) == [kind |-> "object", projects |-> projects]

FileOther(kind) == [kind |-> kind, projects |-> NotAList("missing", 0)]

\* _load_project_rules: [] unless the file exists, is JSON and its top level
\* has a .get(); then whatever "projects" holds, [] when the key is missing.
_load_project_rules(file) ==
    IF file.kind = "absent" THEN Projects(<<>>)
    ELSE IF file.kind = "invalid" THEN Projects(<<>>)
    ELSE IF file.kind = "array" THEN Projects(<<>>)
    ELSE IF file.projects.t = "missing" THEN Projects(<<>>)
    ELSE file.projects

Raised == [ok |-> FALSE, tags |-> <<>>]

Detected(tags) == [ok |-> TRUE, tags |-> tags]

\* bool(pat): an empty string, 0 and null are falsy.
Truthy(pat) ==
    CASE pat.t = "str" -> Len(pat.s) > 0
      [] pat.t = "num" -> pat.n # 0
      [] OTHER -> FALSE

\* The inner loop over one rule's patterns: "match" at the first truthy
\* pattern that is a substring of low, "raise" at a truthy pattern that has
\* no .lower(), "nomatch" when the patterns run out.
RECURSIVE ScanPatterns(_, _, _)
ScanPatterns(pats, j, low) ==
    IF j > Len(pats) THEN "nomatch"
    ELSE IF ~Truthy(pats[j]) THEN ScanPatterns(pats, j + 1, low)
    ELSE IF pats[j].t # "str" THEN "raise"
    ELSE IF IsSubstring(Lower(pats[j].s), low) THEN "match"
    ELSE ScanPatterns(pats, j + 1, low)

\* The outer loop of _detect_projects from rule i on, tags collected so far.
RECURSIVE DetectFrom(_, _, _, _)
DetectFrom(rules, i, low, tags) ==
    IF i > Len(rules) THEN Detected(tags)
    ELSE IF rules[i].t # "obj" THEN Raised
    ELSE IF rules[i].patterns.t \in {"null", "num"} THEN Raised
    ELSE LET tag == rules[i].tag
             r == ScanPatterns(rules[i].patterns.pats, 1, low)
         IN  IF r = "raise" THEN Raised
             ELSE IF r = "match" /\ tag # None /\ tag # "" /\ ~Contains(tags, tag)
                  THEN DetectFrom(rules, i + 1, low, Append(tags, tag))
             ELSE DetectFrom(rules, i + 1, low, tags)

\* _detect_projects(text), reading the rule file as it is at the call.
_detect_projects(text, file) ==
    LET rules == _load_project_rules(file)
    IN  IF rules.t = "list" THEN DetectFrom(rules.rules, 1, Lower(text), <<>>)
        ELSE IF rules.t \in {"str", "obj"} /\ rules.n = 0 THEN Detected(<<>>)
        ELSE Raised

(***************************************************************************)
(* Scores.  round(x, 4) of a quotient n/d, as a number of 1/10000: to the  *)
(* nearest, a tie to the even neighbour.                                   *)
(***************************************************************************)
ScoreScale == 10000

RoundDiv(n, d) ==
    LET q == n \div d
        r == n % d
    IN  IF 2 * r < d THEN q
        ELSE IF 2 * r > d THEN q + 1
        ELSE IF q % 2 = 0 THEN q ELSE q + 1

\* The bound of max() applied to the size of bm25 instead of its value.
NormalizeMagnitude(bm25) == [num |-> 10, den |-> 10 + Max2(0, -bm25)]

\* _normalize_bm25 of a raw value of bm25 tenths: 1.0 / (1.0 + max(0.0, bm25))
\* as the quotient 10 / (10 + max(0, bm25)).
_normalize_bm25(bm25) == [num |-> 10, den |-> 10 + Max2(0, bm25)]

\* round(float(score), 4) of a normalized lexical score.
Round4(q) == RoundDiv(q.num * ScoreScale, q.den)

(***************************************************************************)
(* _merge_results.  `merged` is the dict in insertion order: a sequence of *)
(* hits with distinct keys; storing under a key that is present replaces   *)
(* the value in place.                                                     *)
(***************************************************************************)
HasKey(items, mid) == \E i \in 1..Len(items) : items[i].id = mid

IndexOf(items, mid) == CHOOSE i \in 1..Len(items) : items[i].id = mid

\* A list in place of the dict: every hit is appended.
StoreAppend(items, mid, hit) == Append(items, hit)

\* merged[mid] = hit
Store(items, mid, hit) ==
    IF HasKey(items, mid)
    THEN [items EXCEPT ![IndexOf(items, mid)] = hit]
    ELSE Append(items, hit)

\* The project filter left out.
DroppedNever(proj, tags) == FALSE

\* `if project and project not in tags: continue`
Dropped(proj, tags) == proj # None /\ proj # "" /\ ~Contains(tags, proj)

FtsHit(row, tags) ==
    [id |-> row.id, conversation_id |-> row.conversation_id,
     author_role |-> row.author_role, created_at |-> row.created_at,
     score |-> Round4(_normalize_bm25(row.bm25)), source |-> <<"fts">>,
     preview |-> row.snip, tags |-> tags]

SemHit(item, tags) ==
    [id |-> item.id, conversation_id |-> item.conversation_id,
     author_role |-> item.author_role, created_at |-> item.created_at,
     score |-> item.score, source |-> <<"semantic">>,
     preview |-> item.text, tags |-> tags]

\* `for t in tags: if t not in merged[mid]['tags']: append`
RECURSIVE UnionTags(_, _, _)
UnionTags(have, tags, i) ==
    IF i > Len(tags) THEN have
    ELSE IF Contains(have, tags[i]) THEN UnionTags(have, tags, i + 1)
    ELSE UnionTags(Append(have, tags[i]), tags, i + 1)

\* The semantic score taken in place of the best of the two.
CombineOverwrite(old, item, tags) ==
    [old EXCEPT !.source = Append(old.source, "semantic"),
                !.score = item.score,
                !.preview = IF Len(item.text) > Len(old.preview)
                            THEN item.text ELSE old.preview,
                !.tags = UnionTags(old.tags, tags, 1)]

\* The `if mid in merged` branch of the semantic loop (lines 235-245); the
\* two scores are already rounded to 4 decimals, so is their maximum.
Combine(old, item, tags) ==
    [old EXCEPT !.source = Append(old.source, "semantic"),
                !.score = Max2(old.score, item.score),
                !.preview = IF Len(item.text) > Len(old.preview)
                            THEN item.text ELSE old.preview,
                !.tags = UnionTags(old.tags, tags, 1)]

MergeFailed == [ok |-> FALSE, items |-> <<>>]

\* One iteration of the loop over fts_rows (lines 212-227).
FtsStep(items, row, proj, file) ==
    LET d == _detect_projects(row.snip, file)
    IN  IF ~d.ok THEN MergeFailed
        ELSE IF Dropped(proj, d.tags) THEN [ok |-> TRUE, items |-> items]
        ELSE [ok |-> TRUE, items |-> Store(items, row.id, FtsHit(row, d.tags))]

\* One iteration of the loop over sem_rows (lines 229-256).
SemStep(items, item, proj, file) ==
    LET d == _detect_projects(item.text, file)
    IN  IF ~d.ok THEN MergeFailed
        ELSE IF Dropped(proj, d.tags) THEN [ok |-> TRUE, items |-> items]
        ELSE IF HasKey(items, item.id)
             THEN [ok |-> TRUE,
                   items |-> [items EXCEPT ![IndexOf(items, item.id)] =
                                 Combine(items[IndexOf(items, item.id)], item, d.tags)]]
        ELSE [ok |-> TRUE, items |-> Append(items, SemHit(item, d.tags))]

RECURSIVE FtsLoop(_, _, _, _, _)
FtsLoop(items, rows, i, proj, file) ==
    IF i > Len(rows) THEN [ok |-> TRUE, items |-> items]
    ELSE LET r == FtsStep(items, rows[i], proj, file)
         IN  IF r.ok THEN FtsLoop(r.items, rows, i + 1, proj, file) ELSE MergeFailed

RECURSIVE SemLoop(_, _, _, _, _)
SemLoop(items, rows, i, proj, file) ==
    IF i > Len(rows) THEN [ok |-> TRUE, items |-> items]
    ELSE LET r == SemStep(items, rows[i], proj, file)
         IN  IF r.ok THEN SemLoop(r.items, rows, i + 1, proj, file) ELSE MergeFailed

\* key(x): float(created_at), -1.0 when that raises.
SortTs(ca) == IF ca.k = "num" THEN ca.v ELSE -1

\* The key without its recency part.
KeyLessScoreOnly(a, b) == -a.score < -b.score

\* The key's score taken without its minus sign.
KeyLessAscending(a, b) ==
    \/ a.score < b.score
    \/ /\ a.score = b.score
       /\ -SortTs(a.created_at) < -SortTs(b.created_at)

\* key(a) < key(b) for key(x) = (-score, -ts).
KeyLess(a, b) ==
    \/ -a.score < -b.score
    \/ /\ a.score = b.score
       /\ -SortTs(a.created_at) < -SortTs(b.created_at)

\* list.sort(key=key) is stable: x goes before the first item with a larger key.
InsertByKey(sorted, x) ==
    LET later == {i \in 1..Len(sorted) : KeyLess(x, sorted[i])}
        at == IF later = {} THEN Len(sorted) + 1
              ELSE CHOOSE i \in later : \A j \in later : i <= j
    IN  SubSeq(sorted, 1, at - 1) \o <<x>> \o SubSeq(sorted, at, Len(sorted))

\* The list left in its order of insertion.
SortItemsNot(items, i, sorted) == items

RECURSIVE SortItems(_, _, _)
SortItems(items, i, sorted) ==
    IF i > Len(items) THEN sorted
    ELSE SortItems(items, i + 1, InsertByKey(sorted, items[i]))

_merge_results(rows, sems, proj, file) ==
    LET a == FtsLoop(<<>>, rows, 1, proj, file)
        b == IF a.ok THEN SemLoop(a.items, sems, 1, proj, file) ELSE MergeFailed
    IN  IF b.ok THEN [ok |-> TRUE, items |-> SortItems(b.items, 1, <<>>)]
        ELSE MergeFailed

(***************************************************************************)
(* _group_by_conversation.  `by` is the dict of buckets in insertion       *)
(* order; sorted() is stable, also with reverse=True.                      *)
(***************************************************************************)
\* it.get('conversation_id') or 'unknown'
BucketKey(it) ==
    IF it.conversation_id = None \/ it.conversation_id = ""
    THEN "unknown" ELSE it.conversation_id

\* by.setdefault(cid, []).append(it), for the items from i on.
RECURSIVE Buckets(_, _, _)
Buckets(items, i, by) ==
    IF i > Len(items) THEN by
    ELSE LET cid == BucketKey(items[i])
             has == \E b \in 1..Len(by) : by[b].conversation_id = cid
             at == CHOOSE b \in 1..Len(by) : by[b].conversation_id = cid
         IN  IF has
             THEN Buckets(items, i + 1,
                          [by EXCEPT ![at].hits = Append(by[at].hits, items[i])])
             ELSE Buckets(items, i + 1,
                          Append(by, [conversation_id |-> cid, hits |-> <<items[i]>>]))

\* max((x.get('score') or 0.0) for x in msgs), msgs never empty.
BestScore(msgs) ==
    CHOOSE v \in {msgs[i].score : i \in 1..Len(msgs)} :
        \A i \in 1..Len(msgs) : msgs[i].score <= v

\* Stable insertion of the pair x = [key, val] into pairs sorted by key,
\* larger first: x goes before the first pair with a smaller key.
InsertDesc(sorted, x) ==
    LET later == {i \in 1..Len(sorted) : sorted[i].key < x.key}
        at == IF later = {} THEN Len(sorted) + 1
              ELSE CHOOSE i \in later : \A j \in later : i <= j
    IN  SubSeq(sorted, 1, at - 1) \o <<x>> \o SubSeq(sorted, at, Len(sorted))

RECURSIVE SortDesc(_, _, _)
SortDesc(pairs, i, sorted) ==
    IF i > Len(pairs) THEN [j \in 1..Len(sorted) |-> sorted[j].val]
    ELSE SortDesc(pairs, i + 1, InsertDesc(sorted, pairs[i]))

\* The buckets left in their order of insertion.
BucketsUnranked(by) == by

\* sorted(by.items(), key=best score, reverse=True)
RankBuckets(by) ==
    SortDesc([i \in 1..Len(by) |-> [key |-> BestScore(by[i].hits), val |-> by[i]]],
             1, <<>>)

\* sorted(msgs, key=lambda x: -(x.get('score') or 0.0))
SortByScore(msgs) ==
    SortDesc([i \in 1..Len(msgs) |-> [key |-> msgs[i].score, val |-> msgs[i]]],
             1, <<>>)

\* The bucket's hits sorted but not cut to per_convo.
GroupOfUncut(b, per_convo) ==
    [conversation_id |-> b.conversation_id, hits |-> SortByScore(b.hits)]

\* {'conversation_id': cid, 'hits': sorted(msgs)[:per_convo]}
GroupOf(b, per_convo) ==
    [conversation_id |-> b.conversation_id,
     hits |-> Prefix(SortByScore(b.hits), per_convo)]

_group_by_conversation(items, convos, per_convo) ==
    LET ranked == Prefix(RankBuckets(Buckets(items, 1, <<>>)), convos)
    IN  [i \in 1..Len(ranked) |-> GroupOf(ranked[i], per_convo)]

(***************************************************************************)
(* _parse_time.  A time is [k, neg, s, ms]: k = "none" for None, "num" for *)
(* the float (-1 if neg else 1) * (s + ms/1000), "inf" and "nan" for the   *)
(* floats float() makes of 'inf' and 'nan', "raise" for an exception that  *)
(* leaves the function (millisecond resolution, |seconds| < 2^31).         *)
(***************************************************************************)
NoTime == [k |-> "none", neg |-> FALSE, s |-> 0, ms |-> 0]

TimeNum(neg, s, ms) == [k |-> "num", neg |-> neg /\ (s # 0 \/ ms # 0), s |-> s, ms |-> ms]

TimeSpecial(k, neg) == [k |-> k, neg |-> neg, s |-> 0, ms |-> 0]

TimeRaise == [k |-> "raise", neg |-> FALSE, s |-> 0, ms |-> 0]

\* The time of a signed number of whole seconds.
TimeOfSeconds(n) == IF n < 0 THEN TimeNum(TRUE, -n, 0) ELSE TimeNum(FALSE, n, 0)

Digits == {"0", "1", "2", "3", "4", "5", "6", "7", "8", "9"}

DigitVal(c) ==
    CASE c = "0" -> 0 [] c = "1" -> 1 [] c = "2" -> 2 [] c = "3" -> 3 [] c = "4" -> 4
      [] c = "5" -> 5 [] c = "6" -> 6 [] c = "7" -> 7 [] c = "8" -> 8 [] c = "9" -> 9

Whitespace == {" ", "\t"}

\* s.strip()
Strip(s) ==
    LET keep == {i \in 1..Len(s) : s[i] \notin Whitespace}
        lo == CHOOSE i \in keep : \A j \in keep : i <= j
        hi == CHOOSE i \in keep : \A j \in keep : j <= i
    IN  IF keep = {} THEN <<>> ELSE SubSeq(s, lo, hi)

AllDigits(s) == Len(s) > 0 /\ \A i \in 1..Len(s) : s[i] \in Digits

\* int() of a text of digits.
RECURSIVE IntOf(_)
IntOf(s) ==
    IF Len(s) = 0 THEN 0
    ELSE 10 * IntOf(SubSeq(s, 1, Len(s) - 1)) + DigitVal(s[Len(s)])

\* A digitpart of float(): digits, single underscores allowed between two.
IsDigitPart(s) ==
    /\ Len(s) > 0
    /\ \A i \in 1..Len(s) : s[i] \in Digits \cup {"_"}
    /\ s[1] # "_" /\ s[Len(s)] # "_"
    /\ \A i \in 1..(Len(s) - 1) : ~(s[i] = "_" /\ s[i + 1] = "_")

\* A digitpart without its underscores.
RECURSIVE DropUnderscores(_)
DropUnderscores(s) ==
    IF Len(s) = 0 THEN <<>>
    ELSE IF s[1] = "_" THEN DropUnderscores(Tail(s))
    ELSE <<s[1]>> \o DropUnderscores(Tail(s))

FirstIndex(s, S) ==
    LET at == {i \in 1..Len(s) : s[i] \in S}
    IN  IF at = {} THEN 0 ELSE CHOOSE i \in at : \A j \in at : i <= j

\* The value of the digits ds read with the decimal point after position p.
DigitAt(ds, k) == IF k >= 1 /\ k <= Len(ds) THEN DigitVal(ds[k]) ELSE 0

RECURSIVE WholePart(_, _)
WholePart(ds, p) == IF p <= 0 THEN 0 ELSE 10 * WholePart(ds, p - 1) + DigitAt(ds, p)

Millis(ds, p) == 100 * DigitAt(ds, p + 1) + 10 * DigitAt(ds, p + 2) + DigitAt(ds, p + 3)

ValueError == [ok |-> FALSE, val |-> NoTime]

Value(t) == [ok |-> TRUE, val |-> t]

\* float(s) of an unsigned text: floatnumber [exponent], 'inf', 'infinity'
\* or 'nan' in any case.
FloatUnsigned(s, neg) ==
    LET low == Lower(s)
        e == FirstIndex(low, {"e"})
        mant == IF e = 0 THEN s ELSE SubSeq(s, 1, e - 1)
        expo == IF e = 0 THEN <<>> ELSE SubSeq(s, e + 1, Len(s))
        eneg == Len(expo) > 0 /\ expo[1] = "-"
        edig == IF Len(expo) > 0 /\ expo[1] \in {"+", "-"} THEN Tail(expo) ELSE expo
        dot == FirstIndex(mant, {"."})
        ip == IF dot = 0 THEN mant ELSE SubSeq(mant, 1, dot - 1)
        fp == IF dot = 0 THEN <<>> ELSE SubSeq(mant, dot + 1, Len(mant))
        okm == /\ Len(ip) = 0 \/ IsDigitPart(ip)
               /\ Len(fp) = 0 \/ IsDigitPart(fp)
               /\ Len(ip) + Len(fp) > 0
        oke == e = 0 \/ IsDigitPart(edig)
        ds == DropUnderscores(ip) \o DropUnderscores(fp)
        ev == IF e = 0 THEN 0 ELSE IntOf(DropUnderscores(edig))
        p == Len(DropUnderscores(ip)) + (IF eneg THEN -ev ELSE ev)
    IN  IF low \in {<<"i", "n", "f">>, <<"i", "n", "f", "i", "n", "i", "t", "y">>}
        THEN Value(TimeSpecial("inf", neg))
        ELSE IF low = <<"n", "a", "n">> THEN Value(TimeSpecial("nan", neg))
        ELSE IF okm /\ oke THEN Value(TimeNum(neg, WholePart(ds, p), Millis(ds, p)))
        ELSE ValueError

\* float(s), lines 49-52.
TryFloat(s) ==
    IF Len(s) = 0 THEN ValueError
    ELSE IF s[1] \in {"+", "-"} THEN FloatUnsigned(Tail(s), s[1] = "-")
    ELSE FloatUnsigned(s, FALSE)

IsLeap(y) == (y % 4 = 0 /\ y % 100 # 0) \/ y % 400 = 0

DaysInMonth(y, m) ==
    IF m = 2 THEN (IF IsLeap(y) THEN 29 ELSE 28)
    ELSE IF m \in {4, 6, 9, 11} THEN 30 ELSE 31

\* Days from 1970-01-01 to the date y-m-d of the proleptic Gregorian calendar.
DaysFromCivil(y, m, d) ==
    LET yy == IF m <= 2 THEN y - 1 ELSE y
        era == yy \div 400
        yoe == yy - era * 400
        mp == (m + 9) % 12
        doy == (153 * mp + 2) \div 5 + d - 1
        doe == yoe * 365 + yoe \div 4 - yoe \div 100 + doy
    IN  era * 146097 + doe - 719468

\* The date part YYYY-MM-DD of fromisoformat: [ok, days].
ParseDate(s) ==
    LET shape == /\ Len(s) = 10 /\ s[5] = "-" /\ s[8] = "-"
                 /\ AllDigits(SubSeq(s, 1, 4)) /\ AllDigits(SubSeq(s, 6, 7))
                 /\ AllDigits(SubSeq(s, 9, 10))
        y == IntOf(SubSeq(s, 1, 4))
        m == IntOf(SubSeq(s, 6, 7))
        d == IntOf(SubSeq(s, 9, 10))
    IN  IF shape /\ y >= 1 /\ m >= 1 /\ m <= 12 /\ d >= 1 /\ d <= DaysInMonth(y, m)
        THEN [ok |-> TRUE, days |-> DaysFromCivil(y, m, d)]
        ELSE [ok |-> FALSE, days |-> 0]

\* The time part HH:MM:SS of fromisoformat: [ok, secs].
ParseClock(s) ==
    LET shape == /\ Len(s) = 8 /\ s[3] = ":" /\ s[6] = ":"
                 /\ AllDigits(SubSeq(s, 1, 2)) /\ AllDigits(SubSeq(s, 4, 5))
                 /\ AllDigits(SubSeq(s, 7, 8))
        h == IntOf(SubSeq(s, 1, 2))
        m == IntOf(SubSeq(s, 4, 5))
        sec == IntOf(SubSeq(s, 7, 8))
    IN  IF shape /\ h <= 23 /\ m <= 59 /\ sec <= 59
        THEN [ok |-> TRUE, secs |-> 3600 * h + 60 * m + sec]
        ELSE [ok |-> FALSE, secs |-> 0]

\* A naive timestamp read in a local zone one hour east of UTC.
ParseOffsetLocal(s) ==
    IF Len(s) = 0 THEN [ok |-> TRUE, secs |-> 3600]
    ELSE [ok |-> TRUE, secs |-> 0]

\* The offset +HH:MM or -HH:MM of fromisoformat; no text is no timezone,
\* which _parse_time takes as UTC (lines 65-66): [ok, secs].
ParseOffset(s) ==
    LET shape == /\ Len(s) = 6 /\ s[1] \in {"+", "-"} /\ s[4] = ":"
                 /\ AllDigits(SubSeq(s, 2, 3)) /\ AllDigits(SubSeq(s, 5, 6))
        h == IntOf(SubSeq(s, 2, 3))
        m == IntOf(SubSeq(s, 5, 6))
    IN  IF Len(s) = 0 THEN [ok |-> TRUE, secs |-> 0]
        ELSE IF shape /\ h <= 23 /\ m <= 59
        THEN [ok |-> TRUE, secs |-> (IF s[1] = "-" THEN -1 ELSE 1) * (3600 * h + 60 * m)]
        ELSE [ok |-> FALSE, secs |-> 0]

\* datetime.fromisoformat(s) followed by .timestamp() with UTC for a naive
\* value, for the forms YYYY-MM-DD and YYYY-MM-DD<sep>HH:MM:SS[+HH:MM|-HH:MM].
FromIso(s) ==
    LET d == ParseDate(SubSeq(s, 1, 10))
        c == ParseClock(SubSeq(s, 12, 19))
        z == ParseOffset(SubSeq(s, 20, Len(s)))
    IN  IF Len(s) = 10 /\ d.ok THEN Value(TimeOfSeconds(86400 * d.days))
        ELSE IF Len(s) >= 19 /\ d.ok /\ c.ok /\ z.ok
        THEN Value(TimeOfSeconds(86400 * d.days + c.secs - z.secs))
        ELSE ValueError

\* Lines 55-60: the value returned inside the try, if any.
TryDate(s) ==
    IF Len(s) = 10 /\ s[5] = "-" /\ s[8] = "-" THEN FromIso(s) ELSE ValueError

\* An optional text argument: None, or a text.
Absent == [some |-> FALSE, text |-> <<>>]

Given(text) == [some |-> TRUE, text |-> text]

\* The last `except Exception: return None` left out: the error escapes.
ParseTimeUncaught(a) ==
    IF ~a.some THEN NoTime
    ELSE IF Len(a.text) = 0 THEN NoTime
    ELSE LET t == Strip(a.text)
         IN  IF TryFloat(t).ok THEN TryFloat(t).val
             ELSE IF TryDate(t).ok THEN TryDate(t).val
             ELSE IF FromIso(t).ok THEN FromIso(t).val
             ELSE TimeRaise

_parse_time(a) ==
    IF ~a.some THEN NoTime
    ELSE IF Len(a.text) = 0 THEN NoTime
    ELSE LET t == Strip(a.text)
         IN  IF TryFloat(t).ok THEN TryFloat(t).val
             ELSE IF TryDate(t).ok THEN TryDate(t).val
             ELSE IF FromIso(t).ok THEN FromIso(t).val
             ELSE NoTime

(***************************************************************************)
(* Sample data: the texts, the rule file, the messages of the archive and  *)
(* the rows the two searches can return.                                   *)
(***************************************************************************)
SeqsUpTo(S, n) == UNION {[1..k -> S] : k \in 0..n}

TextPlain == <<"h", "i">>

TextIris == <<"I", "R", "I", "S">>

TextBoth == <<"i", "r", "i", "s", " ", "D", "o", "l">>

SampleRules ==
    <<Rule("Iris", PatList(<<Pat(<<"i", "r", "i", "s">>)>>)),
      Rule("Dolores", PatList(<<Pat(<<>>), Pat(<<"D", "O", "L">>)>>))>>

SampleFile == FileObject(Projects(SampleRules))

\* Message attributes: conversation, author role, created_at (m3 has a
\* created_at that float() rejects and no conversation; m6 and m7 have a
\* negative and a zero epoch value).
ConvOf(mid) ==
    CASE mid = "m1" -> "c1" [] mid = "m2" -> "c1" [] mid = "m4" -> "c2" [] OTHER -> None

RoleOf(mid) == IF mid = "m2" THEN "assistant" ELSE "user"

Numeric(v) == [k |-> "num", v |-> v]

Unparseable == [k |-> "text", v |-> 0]

CreatedOf(mid) ==
    CASE mid = "m1" -> Numeric(100) [] mid = "m2" -> Numeric(200)
      [] mid = "m6" -> Numeric(-86400) [] mid = "m7" -> Numeric(0)
      [] OTHER -> Unparseable

\* A row of fts_search: bm25 in tenths.
Lex(mid, bm25, snip) ==
    [id |-> mid, conversation_id |-> ConvOf(mid), author_role |-> RoleOf(mid),
     created_at |-> CreatedOf(mid), snip |-> snip, bm25 |-> bm25]

\* A hit of semantic_search: score in 1/10000.
Sem(mid, score, text) ==
    [id |-> mid, conversation_id |-> ConvOf(mid), author_role |-> RoleOf(mid),
     created_at |-> CreatedOf(mid), score |-> score, text |-> text]

LexPool ==
    {Lex("m1", 5, TextPlain), Lex("m2", 20, TextPlain), Lex("m1", 20, TextIris),
     Lex("m2", 5, TextIris), Lex("m3", -3, TextPlain), Lex("m3", 5, TextBoth)}

SemPool ==
    {Sem("m2", 9000, TextPlain), Sem("m3", 4000, TextPlain), Sem("m3", -5000, TextIris),
     Sem("m1", 6667, TextBoth), Sem("m2", 3333, TextBoth), Sem("m1", 9000, TextIris)}

MaxFts == 2

MaxSem == 2

NoOutput == [kind |-> "none", items |-> <<>>]

NotMerged == [ok |-> TRUE, items |-> <<>>]

\* Variables a specification does not use keep these values.
IdleTimes ==
    /\ since_arg = Absent /\ until_arg = Absent /\ since = NoTime /\ until = NoTime

IdleGroup == g_convos = 0 /\ g_per = 0 /\ grouped = <<>>

NoCos == [k |-> "none", num |-> 0, den |-> 1]

NoExc == [kind |-> "none", text |-> None]

NoOp == [op |-> "none", row |-> 0]

IdleSearch ==
    /\ query = <<>> /\ role = None /\ match = <<>> /\ limit = 0 /\ docs = <<>>
    /\ min_len = 0 /\ qv = <<>> /\ vec = <<>> /\ cos = NoCos

IdleLedger == events = <<>> /\ handles = <<>> /\ exc = NoExc /\ last = NoOp

IdleEmbed == job = "query" /\ retries = 0 /\ attempt = 0 /\ slept = <<>>

NoRows == [id \in {} |-> 0]

IdleBackfill ==
    /\ vecs = NoRows /\ txn = NoRows /\ candidates = <<>> /\ cursor = 0
    /\ embedded = 0 /\ run = 0 /\ had = NoRows /\ tried = <<>> /\ warned = {}

IdleDetect == text_arg = <<>> /\ classified = <<>> /\ merge_i = 0

IdleCli == cli_scored = <<>> /\ cli_out = <<>> /\ printed = <<>> /\ ok_calls = <<>>

IdleQuery ==
    /\ top = 0 /\ group = FALSE /\ provider = None
    /\ ev_status = None /\ out = NoOutput /\ embed_calls = 0
    /\ IdleSearch /\ IdleLedger /\ IdleEmbed /\ IdleBackfill
    /\ IdleDetect /\ IdleCli

timeVars == <<since_arg, until_arg, since, until>>

groupVars == <<g_convos, g_per, grouped>>

searchVars == <<query, role, match, limit, docs, min_len, qv, vec, cos>>

ledgerVars == <<events, handles, exc, last>>

embedVars == <<job, retries, attempt, slept>>

backfillVars == <<vecs, txn, candidates, cursor, embedded, run, had, tried, warned>>

detectVars == <<text_arg, classified, merge_i>>

cliVars == <<cli_scored, cli_out, printed, ok_calls>>

queryVars == <<top, group, provider, ev_status, out, embed_calls, searchVars, ledgerVars,
               embedVars, backfillVars, detectVars, cliVars>>

inputVars == <<tags_file, fts_rows, sem_rows, project>>

(***************************************************************************)
(* SpecMerge: one call _merge_results(fts_rows, sem_rows, project).        *)
(***************************************************************************)
InitMerge ==
    /\ pc = "merge"
    /\ tags_file \in {SampleFile, FileOther("absent")}
    /\ fts_rows \in SeqsUpTo(LexPool, MaxFts)
    /\ sem_rows \in SeqsUpTo(SemPool, MaxSem)
    /\ project \in {None, "Iris"}
    /\ merged = NotMerged
    /\ IdleTimes /\ IdleGroup /\ IdleQuery

MergeCall ==
    /\ pc = "merge"
    /\ merged' = _merge_results(fts_rows, sem_rows, project, tags_file)
    /\ pc' = IF merged'.ok THEN "merged" ELSE "raised"
    /\ UNCHANGED <<inputVars, timeVars, groupVars, queryVars>>

NextMerge == MergeCall

SpecMerge == InitMerge /\ [][NextMerge]_vars

(***************************************************************************)
(* What the inputs of a merge contribute, stated from the inputs alone.    *)
(***************************************************************************)
\* The tags detected from a text, for a rule file that detection accepts.
TagsOf(text) == _detect_projects(text, tags_file).tags

\* Whether an input text passes the project filter.
Admitted(text) == project \in {None, ""} \/ Contains(TagsOf(text), project)

LexScore(row) == RoundDiv(10 * ScoreScale, 10 + (IF row.bm25 > 0 THEN row.bm25 ELSE 0))

AdmittedFts(mid) == {i \in 1..Len(fts_rows) : fts_rows[i].id = mid /\ Admitted(fts_rows[i].snip)}

AdmittedSem(mid) == {i \in 1..Len(sem_rows) : sem_rows[i].id = mid /\ Admitted(sem_rows[i].text)}

SetMax(S) == CHOOSE v \in S : \A w \in S : w <= v

\* Every admitted input hit of an id.
AllScores(mid) ==
    {LexScore(fts_rows[i]) : i \in AdmittedFts(mid)}
        \cup {sem_rows[i].score : i \in AdmittedSem(mid)}

\* The last admitted lexical hit of an id and all its admitted semantic hits.
KeptScores(mid) ==
    {LexScore(fts_rows[i]) : i \in {j \in AdmittedFts(mid) : \A k \in AdmittedFts(mid) : k <= j}}
        \cup {sem_rows[i].score : i \in AdmittedSem(mid)}

Returned == pc = "merged"

Hits == merged.items

\* C1: the sequence returned by _merge_results holds each document id at
\* most once, whatever ids the lexical and semantic inputs repeat.
C1_UniqueIds ==
    Returned => \A i, j \in 1..Len(Hits) : Hits[i].id = Hits[j].id => i = j

\* An id that both a lexical and a semantic input carry was merged.
C1_Witness ==
    /\ Returned
    /\ \E i \in 1..Len(fts_rows), j \in 1..Len(sem_rows), h \in 1..Len(Hits) :
          /\ fts_rows[i].id = sem_rows[j].id
          /\ Hits[h].id = fts_rows[i].id
          /\ Hits[h].source = <<"fts", "semantic">>

\* C2: every returned hit has a score in [0, 1].
C2_ScoreInUnitInterval ==
    Returned => \A h \in 1..Len(Hits) : Hits[h].score >= 0 /\ Hits[h].score <= ScoreScale

\* C3 as claimed: a hit's score is the maximum of the normalized scores of
\* all the input hits of its id that passed the tag filter.
C3_MaxOfAllInputs ==
    Returned => \A h \in 1..Len(Hits) : Hits[h].score = SetMax(AllScores(Hits[h].id))

\* C3, amended: a hit's score is the maximum of the normalized score of the
\* last admitted lexical hit of its id and of the similarities of all the
\* admitted semantic hits of its id.
C3_MaxOfKept ==
    Returned => \A h \in 1..Len(Hits) :
        /\ KeptScores(Hits[h].id) # {}
        /\ Hits[h].score = SetMax(KeptScores(Hits[h].id))

\* A hit whose id two admitted lexical rows of different scores and an
\* admitted semantic hit carry: it has the score of the later lexical row,
\* which is at least the semantic one.
C3_Witness ==
    /\ Returned
    /\ \E h \in 1..Len(Hits) :
          /\ AdmittedFts(Hits[h].id) = {1, 2}
          /\ LexScore(fts_rows[1]) # LexScore(fts_rows[2])
          /\ AdmittedSem(Hits[h].id) # {}
          /\ Hits[h].score = LexScore(fts_rows[2])

\* C4: with a project tag given, every returned hit carries the tag, and
\* the tag is detected from the text of one of the inputs of its id.
C4_TagFilter ==
    (Returned /\ project # None) => \A h \in 1..Len(Hits) :
        /\ Contains(Hits[h].tags, project)
        /\ \/ \E i \in 1..Len(fts_rows) :
                 fts_rows[i].id = Hits[h].id /\ Contains(TagsOf(fts_rows[i].snip), project)
           \/ \E i \in 1..Len(sem_rows) :
                 sem_rows[i].id = Hits[h].id /\ Contains(TagsOf(sem_rows[i].text), project)

\* A filtered merge that admitted a hit and dropped an input without the tag.
C4_Witness ==
    /\ Returned /\ project = "Iris" /\ Len(Hits) > 0
    /\ \E i \in 1..Len(sem_rows) : ~Contains(TagsOf(sem_rows[i].text), project)
    /\ \E i \in 1..Len(fts_rows) : ~Contains(TagsOf(fts_rows[i].snip), project)

\* C5: the returned sequence is ordered by score descending and, between
\* adjacent hits of equal score whose created_at are both numeric, by
\* created_at descending.
C5_Ordered ==
    Returned => \A i \in 1..(Len(Hits) - 1) :
        /\ Hits[i].score >= Hits[i + 1].score
        /\ (/\ Hits[i].score = Hits[i + 1].score
            /\ Hits[i].created_at.k = "num"
            /\ Hits[i + 1].created_at.k = "num")
              => Hits[i].created_at.v >= Hits[i + 1].created_at.v

\* Two hits of equal score that the sort had to exchange: the older one
\* came first in the input.
C5_Witness ==
    /\ Returned /\ Len(Hits) >= 2 /\ Len(fts_rows) = 2
    /\ fts_rows[1].id = "m1" /\ fts_rows[2].id = "m2"
    /\ Hits[1].id = "m2" /\ Hits[2].id = "m1"
    /\ Hits[1].score = Hits[2].score

(***************************************************************************)
(* SpecGroup: one call _group_by_conversation(items, convos, per_convo) on *)
(* a list of merged hits.                                                  *)
(***************************************************************************)
MaxItems == 3

MaxConvos == 2

MaxPer == 2

GroupPool ==
    {SemHit(Sem(mid, sc, TextPlain), <<>>) :
        mid \in {"m1", "m2", "m3", "m4"}, sc \in {4000, 9000}}

InitGroup ==
    /\ pc = "group"
    /\ merged \in {[ok |-> TRUE, items |-> items] : items \in SeqsUpTo(GroupPool, MaxItems)}
    /\ g_convos \in 0..MaxConvos
    /\ g_per \in 0..MaxPer
    /\ grouped = <<>>
    /\ tags_file = SampleFile /\ fts_rows = <<>> /\ sem_rows = <<>> /\ project = None
    /\ IdleTimes /\ IdleQuery

GroupCall ==
    /\ pc = "group"
    /\ grouped' = _group_by_conversation(merged.items, g_convos, g_per)
    /\ pc' = "grouped"
    /\ UNCHANGED <<inputVars, merged, g_convos, g_per, timeVars, queryVars>>

NextGroup == GroupCall

SpecGroup == InitGroup /\ [][NextGroup]_vars

\* C6: _group_by_conversation returns at most max_conversations groups and
\* every group holds at most max_hits_per_conversation hits.
C6_GroupCaps ==
    pc = "grouped" =>
        /\ Len(grouped) <= g_convos
        /\ \A g \in 1..Len(grouped) : Len(grouped[g].hits) <= g_per

\* Both caps cut: more conversations than groups returned, and a returned
\* group whose conversation has more hits than it holds.
C6_Witness ==
    /\ pc = "grouped" /\ g_convos >= 1 /\ g_per >= 1
    /\ Len(grouped) = g_convos
    /\ Cardinality({BucketKey(merged.items[i]) : i \in 1..Len(merged.items)}) > g_convos
    /\ \E g \in 1..Len(grouped) :
          /\ Len(grouped[g].hits) = g_per
          /\ Cardinality({i \in 1..Len(merged.items) :
                 BucketKey(merged.items[i]) = grouped[g].conversation_id}) > g_per

(***************************************************************************)
(* SpecTime: the two calls of _parse_time in main (lines 302-303) on       *)
(* sample arguments; each sample names the kind of text it is.             *)
(***************************************************************************)
TimeSamples ==
    {
     [text |-> <<"5">>, kind |-> "numeric"],
     [text |-> <<" ", "1", "7", "6", "9", "9", "5", "9", "6", "5", "5", ".", "9", "2", "2", " ">>, kind |-> "numeric"],
     [text |-> <<"-", "1", ".", "5">>, kind |-> "numeric"],
     [text |-> <<"1", "e", "3">>, kind |-> "numeric"],
     [text |-> <<"1", "_", "0">>, kind |-> "numeric"],
     [text |-> <<"n", "a", "n">>, kind |-> "numeric"],
     [text |-> <<"i", "n", "f">>, kind |-> "numeric"],
     [text |-> <<"2", "0", "2", "6", "0", "2", "0", "1">>, kind |-> "numeric"],
     [text |-> <<".", "5">>, kind |-> "numeric"],
     [text |-> <<"2", "0", "2", "6", "-", "0", "2", "-", "0", "1">>, kind |-> "date"],
     [text |-> <<"1", "9", "6", "9", "-", "1", "2", "-", "3", "1">>, kind |-> "date"],
     [text |-> <<" ", "2", "0", "2", "4", "-", "0", "2", "-", "2", "9">>, kind |-> "date"],
     [text |-> <<"2", "0", "2", "6", "-", "0", "2", "-", "0", "1", "T", "0", "0", ":", "0", "0", ":", "0", "0", "+", "0", "0", ":", "0", "0">>, kind |-> "iso"],
     [text |-> <<"2", "0", "2", "6", "-", "0", "2", "-", "0", "1", "T", "0", "0", ":", "0", "0", ":", "0", "0">>, kind |-> "iso"],
     [text |-> <<"2", "0", "2", "6", "-", "0", "2", "-", "0", "1", " ", "0", "1", ":", "0", "0", ":", "0", "0", "+", "0", "1", ":", "0", "0">>, kind |-> "iso"],
     [text |-> <<"2", "0", "2", "6", "-", "0", "1", "-", "3", "1", "T", "2", "3", ":", "0", "0", ":", "0", "0", "-", "0", "1", ":", "0", "0">>, kind |-> "iso"],
     [text |-> <<"1", "9", "6", "9", "-", "1", "2", "-", "3", "1", "T", "0", "0", ":", "0", "0", ":", "0", "0", "+", "0", "0", ":", "0", "0">>, kind |-> "iso"],
     [text |-> <<"2", "0", "2", "4", "-", "0", "2", "-", "2", "9", "T", "0", "0", ":", "0", "0", ":", "0", "0">>, kind |-> "iso"],
     [text |-> <<"a", "b", "c">>, kind |-> "other"],
     [text |-> <<" ", " ">>, kind |-> "other"],
     [text |-> <<"2", "0", "2", "6", "-", "0", "2", "-", "3", "0">>, kind |-> "other"],
     [text |-> <<"2", "0", "2", "6", "-", "1", "3", "-", "0", "1">>, kind |-> "other"],
     [text |-> <<"2", "0", "2", "6", "/", "0", "2", "/", "0", "1">>, kind |-> "other"],
     [text |-> <<"2", "0", "2", "6", "-", "0", "2", "-", "0", "1", "T", "2", "5", ":", "0", "0", ":", "0", "0">>, kind |-> "other"],
     [text |-> <<"-", "-">>, kind |-> "other"],
     [text |-> <<"1", "e">>, kind |-> "other"],
     [text |-> <<"y", "e", "s", "t", "e", "r", "d", "a", "y">>, kind |-> "other"],
     [text |-> <<"2", "0", "2", "3", "-", "0", "2", "-", "2", "9">>, kind |-> "other"],
     [text |-> <<"1", "_", "_", "0">>, kind |-> "other"],
     [text |-> <<"2", "0", "2", "6", "-", "0", "2", "-", "0", "1", "T", "0", "0", ":", "0", "0", ":", "0", "0", "+", "0">>, kind |-> "other"]
    }

TimeArgs == {Absent} \cup {Given(r.text) : r \in TimeSamples}

KindOf(a) ==
    IF a.some THEN (CHOOSE r \in TimeSamples : r.text = a.text).kind ELSE "absent"

InitTime ==
    /\ pc = "parse"
    /\ since_arg \in TimeArgs
    /\ until_arg \in TimeArgs
    /\ since = NoTime /\ until = NoTime
    /\ tags_file = SampleFile /\ fts_rows = <<>> /\ sem_rows = <<>> /\ project = None
    /\ merged = NotMerged
    /\ IdleGroup /\ IdleQuery

ParseTimes ==
    /\ pc = "parse"
    /\ since' = _parse_time(since_arg)
    /\ until' = _parse_time(until_arg)
    /\ pc' = IF since'.k = "raise" \/ until'.k = "raise" THEN "raised" ELSE "parsed"
    /\ UNCHANGED <<inputVars, merged, since_arg, until_arg, groupVars, queryVars>>

NextTime == ParseTimes

SpecTime == InitTime /\ [][NextTime]_vars

\* What C8 says of one argument and the value parsed from it.
ParsedAsClaimed(a, t) ==
    /\ t.k # "raise"
    /\ KindOf(a) \in {"numeric", "date", "iso"} => t.k \in {"num", "inf", "nan"}
    /\ KindOf(a) \in {"other", "absent"} => t = NoTime

\* C8: _parse_time never raises; it returns a float for a numeric text (as
\* float() reads it), a YYYY-MM-DD date or an ISO-8601 timestamp, and None
\* for every other text and for an absent argument, so a malformed bound
\* leaves the query running with that bound removed.
C8_ParseTimeTotal ==
    pc # "parse" =>
        /\ pc = "parsed"
        /\ ParsedAsClaimed(since_arg, since)
        /\ ParsedAsClaimed(until_arg, until)

\* A malformed date (both fromisoformat calls raise) beside a timestamp.
C8_Witness ==
    /\ pc = "parsed"
    /\ since_arg = Given(<<"2", "0", "2", "6", "-", "0", "2", "-", "3", "0">>)
    /\ since = NoTime
    /\ KindOf(until_arg) = "iso" /\ until.k = "num"

(***************************************************************************)
(* SpecRules: _merge_results under every shape of the rule file.           *)
(***************************************************************************)
RuleFiles ==
    {SampleFile,
     FileOther("absent"), FileOther("invalid"), FileOther("array"),
     FileObject(NotAList("missing", 0)),
     FileObject(NotAList("null", 0)),
     FileObject(NotAList("num", 0)),
     FileObject(NotAList("str", 0)),
     FileObject(NotAList("str", 3)),
     FileObject(NotAList("obj", 1)),
     FileObject(Projects(<<NotARule("str")>>)),
     FileObject(Projects(<<Rule("Iris", NoPatterns("null"))>>)),
     FileObject(Projects(<<Rule("Iris", NoPatterns("missing"))>>)),
     FileObject(Projects(<<Rule("Iris", PatList(<<PatNum(0), Pat(<<"i", "r", "i", "s">>)>>))>>)),
     FileObject(Projects(<<Rule("Iris", PatList(<<PatNum(5), Pat(<<"i", "r", "i", "s">>)>>))>>))}

\* The files the claim calls absent or malformed: all but those whose
\* "projects" is a list of rule objects with a list of text patterns.
Malformed(file) ==
    \/ file.kind # "object"
    \/ file.projects.t # "list"
    \/ \E i \in 1..Len(file.projects.rules) :
          \/ file.projects.rules[i].t # "obj"
          \/ file.projects.rules[i].patterns.t # "list"
          \/ \E j \in 1..Len(file.projects.rules[i].patterns.pats) :
                file.projects.rules[i].patterns.pats[j].t # "str"

RulesLexPool == {Lex("m1", 5, TextPlain), Lex("m2", 5, TextIris)}

RulesSemPool == {Sem("m2", 9000, TextPlain), Sem("m3", 4000, TextBoth)}

InitRules ==
    /\ pc = "merge"
    /\ tags_file \in RuleFiles
    /\ fts_rows \in SeqsUpTo(RulesLexPool, MaxFts)
    /\ sem_rows \in SeqsUpTo(RulesSemPool, MaxSem)
    /\ project \in {None, "Iris"}
    /\ merged = NotMerged
    /\ IdleTimes /\ IdleGroup /\ IdleQuery

SpecRules == InitRules /\ [][NextMerge]_vars

\* C9: whatever the state of the rule file, tag detection and the merge do
\* not raise, and with an absent or malformed file no tag is detected.
C9_RulesNeverRaise ==
    /\ pc # "raised"
    /\ (Returned /\ Malformed(tags_file)) =>
          \A h \in 1..Len(Hits) : Hits[h].tags = <<>>

(***************************************************************************)
(* Spec: one run of main() (lines 287-343): parse the time bounds, open    *)
(* the ledger event, run the lexical then the semantic search, merge, cut  *)
(* or group, mark the event ok and print.  An exception raised inside the  *)
(* `with log_event(...)` block marks the event 'error' and leaves main().  *)
(***************************************************************************)
MaxTop == 2

QueryLexPool == {Lex("m1", 5, TextPlain), Lex("m2", 20, TextPlain)}

QuerySemPool == {Sem("m2", 9000, TextPlain), Sem("m3", 4000, TextPlain)}

ProviderFailures == {"error", "timeout", "empty"}

Init ==
    /\ pc = "start"
    /\ since_arg \in {Absent, Given(<<"2", "0", "2", "6", "-", "0", "2", "-", "0", "1">>)}
    /\ until_arg = Absent
    /\ since = NoTime /\ until = NoTime
    /\ project \in {None, "Iris"}
    /\ top \in 0..MaxTop
    /\ group \in BOOLEAN
    /\ g_convos \in 0..MaxConvos
    /\ g_per \in 0..MaxPer
    /\ tags_file = SampleFile
    /\ fts_rows = <<>> /\ sem_rows = <<>>
    /\ merged = NotMerged
    /\ grouped = <<>>
    /\ provider = None
    /\ ev_status = None
    /\ out = NoOutput
    /\ embed_calls = 0
    /\ IdleSearch /\ IdleLedger /\ IdleEmbed /\ IdleBackfill
    /\ IdleDetect /\ IdleCli

argVars == <<since_arg, until_arg, project, top, group, g_convos, g_per, tags_file,
             searchVars, ledgerVars, embedVars, backfillVars, detectVars, cliVars>>

\* Lines 302-303.
ParseArgs ==
    /\ pc = "start"
    /\ since' = _parse_time(since_arg)
    /\ until' = _parse_time(until_arg)
    /\ pc' = "parsed"
    /\ UNCHANGED <<argVars, fts_rows, sem_rows, merged, grouped, provider, ev_status, out, embed_calls>>

\* Lines 305-320: log_event inserts the row with status 'running'.
LogEventEnter ==
    /\ pc = "parsed"
    /\ ev_status' = "running"
    /\ pc' = "running"
    /\ UNCHANGED <<argVars, since, until, fts_rows, sem_rows, merged, grouped, provider, out, embed_calls>>

\* Lines 322-323: the rows the lexical index returns.
FtsSearch ==
    /\ pc = "running"
    /\ fts_rows' \in SeqsUpTo(QueryLexPool, MaxFts)
    /\ pc' = "fts"
    /\ UNCHANGED <<argVars, since, until, sem_rows, merged, grouped, provider, ev_status, out, embed_calls>>

\* Lines 322-323: the lexical index cannot be read; sqlite3 raises.
FtsSearchRaises ==
    /\ pc = "running"
    /\ ev_status' = "error"
    /\ pc' = "failed"
    /\ UNCHANGED <<argVars, since, until, fts_rows, sem_rows, merged, grouped, provider, out, embed_calls>>

\* Line 324: the provider answers and semantic_search returns its hits.
SemanticSearch ==
    /\ pc = "fts"
    /\ embed_calls' = embed_calls + 1
    /\ provider' = "ok"
    /\ sem_rows' \in SeqsUpTo(QuerySemPool, MaxSem)
    /\ pc' = "sem"
    /\ UNCHANGED <<argVars, since, until, fts_rows, merged, grouped, ev_status, out>>

\* The failure swallowed: the query goes on with no semantic hit.
SemanticSearchFallback ==
    /\ pc = "fts"
    /\ embed_calls' = embed_calls + 1
    /\ provider' \in ProviderFailures
    /\ sem_rows' = <<>>
    /\ pc' = "sem"
    /\ UNCHANGED <<argVars, since, until, fts_rows, merged, grouped, ev_status, out>>

\* Line 324: ollama_embed raises (urlopen error or timeout, or 'empty
\* embedding'); nothing in semantic_search or main catches it, log_event
\* marks the event 'error' and raises it again.
SemanticSearchRaises ==
    /\ pc = "fts"
    /\ embed_calls' = embed_calls + 1
    /\ provider' \in ProviderFailures
    /\ ev_status' = "error"
    /\ pc' = "failed"
    /\ UNCHANGED <<argVars, since, until, fts_rows, sem_rows, merged, grouped, out>>

\* Line 325.
Merge ==
    /\ pc = "sem"
    /\ merged' = _merge_results(fts_rows, sem_rows, project, tags_file)
    /\ pc' = IF merged'.ok THEN "merged" ELSE "failed"
    /\ ev_status' = IF merged'.ok THEN ev_status ELSE "error"
    /\ UNCHANGED <<argVars, since, until, fts_rows, sem_rows, grouped, provider, out, embed_calls>>

\* Lines 337-340: what main() prints under 'grouped' or 'hits'.
Printed ==
    IF group
    THEN [kind |-> "grouped",
          items |-> _group_by_conversation(
                        Prefix(merged.items, Max2(top, g_convos * g_per)), g_convos, g_per)]
    ELSE [kind |-> "hits", items |-> Prefix(merged.items, top)]

\* Lines 327-343: build the output, ev.ok(), print.
Output ==
    /\ pc = "merged"
    /\ out' = Printed
    /\ grouped' = IF group THEN Printed.items ELSE grouped
    /\ ev_status' = "ok"
    /\ pc' = "done"
    /\ UNCHANGED <<argVars, since, until, fts_rows, sem_rows, merged, provider, embed_calls>>

Next ==
    \/ ParseArgs
    \/ LogEventEnter
    \/ FtsSearch
    \/ FtsSearchRaises
    \/ SemanticSearch
    \/ SemanticSearchRaises
    \/ Merge
    \/ Output

Spec == Init /\ [][Next]_vars

\* C7: a query whose embedding call fails fails as a whole: the exception
\* leaves main(), nothing is merged or printed, whatever the lexical search
\* returned before.
C7_ProviderFailureFatal ==
    provider \in ProviderFailures =>
        /\ pc = "failed"
        /\ out = NoOutput
        /\ merged = NotMerged
        /\ ev_status = "error"

\* The provider failed after the lexical search had returned hits.
C7_Witness ==
    /\ provider \in ProviderFailures
    /\ Len(fts_rows) > 0
    /\ pc = "failed"

ScenarioFts == <<Lex("m1", 5, TextPlain), Lex("m2", 20, TextPlain)>>

ScenarioSem == <<Sem("m2", 9000, TextPlain), Sem("m3", 4000, TextPlain)>>

Brief(h) == <<h.id, h.score, h.source>>

\* C10: lexical {m1: 0.5, m2: 2.0} and semantic {m2: 0.9, m3: 0.4} with no
\* project merge to m2 (0.9, both sources), m1 (0.6667, lexical), m3 (0.4,
\* semantic) in this order, and top=2 prints [m2, m1].
C10_Scenario ==
    (fts_rows = ScenarioFts /\ sem_rows = ScenarioSem /\ project = None) =>
        /\ pc \in {"merged", "done"} =>
              [i \in 1..Len(merged.items) |-> Brief(merged.items[i])]
                  = << <<"m2", 9000, <<"fts", "semantic">> >>,
                       <<"m1", 6667, <<"fts">> >>,
                       <<"m3", 4000, <<"semantic">> >> >>
        /\ (pc = "done" /\ ~group /\ top = 2) =>
              /\ out.kind = "hits"
              /\ [i \in 1..Len(out.items) |-> out.items[i].id] = <<"m2", "m1">>

\* The scenario printed with top=2.
C10_Witness ==
    /\ pc = "done" /\ ~group /\ top = 2 /\ project = None
    /\ fts_rows = ScenarioFts /\ sem_rows = ScenarioSem
    /\ Len(out.items) = 2

(***************************************************************************)
(* cosine (lines 111-121).  Vectors are sequences of integers; the result  *)
(* is the quotient [num, den] with den > 0, or k = "raise" for a           *)
(* ZeroDivisionError.  math.sqrt is the integer root, which is the exact   *)
(* root for the sample vectors: each of them has an integral norm.         *)
(***************************************************************************)
Min2(a, b) == IF a <= b THEN a ELSE b

\* The sum of x * y over the first n pairs of zip(a, b).
RECURSIVE Dot(_, _, _)
Dot(a, b, n) == IF n = 0 THEN 0 ELSE Dot(a, b, n - 1) + a[n] * b[n]

Isqrt(n) == CHOOSE r \in 0..n : r * r <= n /\ n < (r + 1) * (r + 1)

Quotient(num, den) == [k |-> "num", num |-> num, den |-> den]

ZeroDivisionError == [k |-> "raise", num |-> 0, den |-> 1]

\* The division of line 121 alone, without the test of line 119.
CosineUnguarded(a, b) ==
    LET n == Min2(Len(a), Len(b))
        den == Isqrt(Dot(a, a, n)) * Isqrt(Dot(b, b, n))
    IN  IF den = 0 THEN ZeroDivisionError ELSE Quotient(Dot(a, b, n), den)

cosine(a, b) ==
    LET n == Min2(Len(a), Len(b))
        dot == Dot(a, b, n)
        na == Dot(a, a, n)
        nb == Dot(b, b, n)
    IN  IF na = 0 \/ nb = 0 THEN Quotient(0, 1)
        ELSE Quotient(dot, Isqrt(na) * Isqrt(nb))

\* s < t for two quotients.
QuotientLess(s, t) == s.num * t.den < t.num * s.den

(***************************************************************************)
(* semantic_search (lines 156-200) over the rows of semantic.sqlite.  A    *)
(* row is [id, v, meta, text]: meta holds what meta.get() returns for the  *)
(* three keys read (None or NoCreated for a missing key, all three missing *)
(* when meta_json is empty), text is [null, s] (null for SQL NULL).        *)
(* created_at is [k, v]: k = "null" for a missing or null value, "num" for *)
(* a value float() accepts (v, in seconds), "text" for one it rejects (v   *)
(* is then what SQLite's CAST(... AS REAL) makes of it).                   *)
(***************************************************************************)
NoCreated == [k |-> "null", v |-> 0]

StoredText(s) == [null |-> FALSE, s |-> s]

NullText == [null |-> TRUE, s |-> <<>>]

Meta(cid, author_role, created_at) ==
    [conversation_id |-> cid, author_role |-> author_role, created_at |-> created_at]

Doc(mid, v, meta, text) == [id |-> mid, v |-> v, meta |-> meta, text |-> text]

MinLenDefault == 120

TextCut == 700

\* Line 165: `not text or len(text) < min_len`.
TooShort(text, minlen) == text.null \/ Len(text.s) = 0 \/ Len(text.s) < minlen

\* Line 171: `role and rrole != role`.
RoleRejects(meta, r) == r # None /\ r # "" /\ meta.author_role # r

\* Lines 174-177: ts is None for an absent created_at and for one float()
\* rejects.
HasTs(meta) == meta.created_at.k = "num"

\* ts < t and ts > t for the float t of a time bound, ts in whole seconds.
TsBelow(ts, t) ==
    CASE t.k = "num" -> IF t.neg THEN ts < -t.s
                        ELSE ts < t.s \/ (ts = t.s /\ t.ms > 0)
      [] t.k = "inf" -> ~t.neg
      [] OTHER -> FALSE

TsAbove(ts, t) ==
    CASE t.k = "num" -> IF t.neg THEN ts > -t.s \/ (ts = -t.s /\ t.ms > 0)
                        ELSE ts > t.s
      [] t.k = "inf" -> t.neg
      [] OTHER -> FALSE

\* Lines 179-182.
TimeRejects(meta, lo, hi) ==
    \/ lo.k # "none" /\ HasTs(meta) /\ TsBelow(meta.created_at.v, lo)
    \/ hi.k # "none" /\ HasTs(meta) /\ TsAbove(meta.created_at.v, hi)

\* The filter without the test of line 165.
SurvivesAnyLength(d, r, lo, hi, minlen) ==
    ~RoleRejects(d.meta, r) /\ ~TimeRejects(d.meta, lo, hi)

\* Lines 165-182: the row reaches line 184.
Survives(d, r, lo, hi, minlen) ==
    ~TooShort(d.text, minlen) /\ ~RoleRejects(d.meta, r) /\ ~TimeRejects(d.meta, lo, hi)

\* Lines 163-186: the (s, row) pairs of the surviving rows, from row i on.
RECURSIVE Scored(_, _, _, _, _, _, _)
Scored(rows, i, q, r, lo, hi, minlen) ==
    IF i > Len(rows) THEN <<>>
    ELSE (IF Survives(rows[i], r, lo, hi, minlen)
          THEN <<[s |-> cosine(q, rows[i].v), d |-> rows[i]]>> ELSE <<>>)
         \o Scored(rows, i + 1, q, r, lo, hi, minlen)

\* Stable insertion, larger s first.
InsertBySimilarity(sorted, x) ==
    LET later == {i \in 1..Len(sorted) : QuotientLess(sorted[i].s, x.s)}
        at == IF later = {} THEN Len(sorted) + 1
              ELSE CHOOSE i \in later : \A j \in later : i <= j
    IN  SubSeq(sorted, 1, at - 1) \o <<x>> \o SubSeq(sorted, at, Len(sorted))

\* The list left in its order of arrival.
SortNotAtAll(scored, i, sorted) == scored

\* Line 188: scored.sort(key=lambda x: x[0], reverse=True).
RECURSIVE SortBySimilarity(_, _, _)
SortBySimilarity(scored, i, sorted) ==
    IF i > Len(scored) THEN sorted
    ELSE SortBySimilarity(scored, i + 1, InsertBySimilarity(sorted, scored[i]))

\* Line 198: (text[:700] + ellipsis) if len(text) > 700 else text; the
\* ellipsis character is written "...".
CutText(s) == IF Len(s) > TextCut THEN SubSeq(s, 1, TextCut) \o <<"...">> ELSE s

\* Lines 192-199.
SemanticHit(x) ==
    [score |-> RoundDiv(x.s.num * ScoreScale, x.s.den),
     id |-> x.d.id,
     conversation_id |-> x.d.meta.conversation_id,
     author_role |-> x.d.meta.author_role,
     created_at |-> x.d.meta.created_at,
     text |-> CutText(x.d.text.s)]

\* scored[:top] for top >= 0.
semantic_search(rows, q, r, lo, hi, n, minlen) ==
    LET scored == SortBySimilarity(Scored(rows, 1, q, r, lo, hi, minlen), 1, <<>>)
        kept == Prefix(scored, n)
    IN  [i \in 1..Len(kept) |-> SemanticHit(kept[i])]

(***************************************************************************)
(* SpecSem: one call semantic_search(query, role, since, until, top,       *)
(* min_len) over a vector store of sample rows (ids are the primary key of *)
(* docs and vecs, so the rows of one store have distinct ids).             *)
(***************************************************************************)
Chars(n) == [i \in 1..n |-> "x"]

DocPool ==
    {Doc("d1", <<1, 0>>, Meta("c1", "user", Numeric(100)), StoredText(Chars(MinLenDefault))),
     Doc("d2", <<1, 0>>, Meta("c1", "user", Numeric(200)), StoredText(Chars(MinLenDefault - 1))),
     Doc("d3", <<3, 4>>, Meta("c2", "assistant", Numeric(200)), StoredText(Chars(TextCut + 1))),
     Doc("d4", <<1, 0>>, Meta(None, "user", Numeric(100)), NullText),
     Doc("d5", <<4, 3>>, Meta("c2", "user", NoCreated), StoredText(Chars(MinLenDefault))),
     Doc("d6", <<0, 0>>, Meta(None, None, Unparseable), StoredText(Chars(MinLenDefault + 10))),
     Doc("d7", <<-1, 0>>, Meta("c1", "user", Numeric(200)), StoredText(<<>>))}

MaxDocs == 3

DistinctIds(rows) == \A i, j \in 1..Len(rows) : rows[i].id = rows[j].id => i = j

Stores == {rows \in SeqsUpTo(DocPool, MaxDocs) : DistinctIds(rows)}

QueryVectors == {<<1, 0>>, <<3, 4>>}

Bounds == {NoTime, TimeOfSeconds(150)}

InitSem ==
    /\ pc = "semantic"
    /\ docs \in Stores
    /\ role \in {None, "user"}
    /\ since \in Bounds
    /\ until \in Bounds
    /\ top \in 0..MaxTop
    /\ min_len \in {0, MinLenDefault}
    /\ qv = <<>> /\ sem_rows = <<>>
    /\ provider = None /\ embed_calls = 0
    /\ query = <<>> /\ match = <<>> /\ limit = 0 /\ vec = <<>> /\ cos = NoCos
    /\ since_arg = Absent /\ until_arg = Absent
    /\ tags_file = SampleFile /\ fts_rows = <<>> /\ project = None
    /\ merged = NotMerged
    /\ group = FALSE /\ ev_status = None /\ out = NoOutput
    /\ IdleGroup /\ IdleLedger /\ IdleEmbed /\ IdleBackfill
    /\ IdleDetect /\ IdleCli

semVars == <<docs, role, since, until, top, min_len>>

restOfSem == <<tags_file, fts_rows, project, merged, groupVars, since_arg, until_arg,
               group, ev_status, out, query, match, limit, vec, cos, ledgerVars, embedVars,
               backfillVars, detectVars, cliVars>>

\* Lines 157-200: the provider returns the embedding qv of the query.
SemanticSearchCall ==
    /\ pc = "semantic"
    /\ embed_calls' = embed_calls + 1
    /\ provider' = "ok"
    /\ qv' \in QueryVectors
    /\ sem_rows' = semantic_search(docs, qv', role, since, until, top, min_len)
    /\ pc' = "searched"
    /\ UNCHANGED <<semVars, restOfSem>>

\* Line 157: ollama_embed raises, and so does semantic_search.
SemanticSearchCallRaises ==
    /\ pc = "semantic"
    /\ embed_calls' = embed_calls + 1
    /\ provider' \in ProviderFailures
    /\ pc' = "raised"
    /\ UNCHANGED <<semVars, restOfSem, qv, sem_rows>>

NextSem == SemanticSearchCall \/ SemanticSearchCallRaises

SpecSem == InitSem /\ [][NextSem]_vars

Searched == pc = "searched"

\* The stored row of a returned hit.
RowOf(h) == CHOOSE i \in 1..Len(docs) : docs[i].id = h.id

ReturnedIds == {sem_rows[h].id : h \in 1..Len(sem_rows)}

\* C11: semantic_search never returns a document whose stored text is empty
\* (or null) or shorter than min_len, whatever its similarity and whatever
\* the role and time filters.
C11_MinLength ==
    Searched =>
        \A h \in 1..Len(sem_rows) :
            LET text == docs[RowOf(sem_rows[h])].text
            IN  ~text.null /\ Len(text.s) > 0 /\ Len(text.s) >= min_len

\* A row too short is left out although the filters admit it, it is more
\* similar to the query than a returned hit, and top leaves room for it.
C11_Witness ==
    /\ Searched
    /\ Len(sem_rows) >= 1 /\ Len(sem_rows) < top
    /\ \E i \in 1..Len(docs) :
          /\ ~docs[i].text.null /\ Len(docs[i].text.s) = MinLenDefault - 1
          /\ docs[i].id \notin ReturnedIds
          /\ ~RoleRejects(docs[i].meta, role) /\ ~TimeRejects(docs[i].meta, since, until)
          /\ QuotientLess(cosine(qv, docs[RowOf(sem_rows[1])].v), cosine(qv, docs[i].v))

(***************************************************************************)
(* The WHERE clause fts_search builds (lines 137-147), as SQLite evaluates *)
(* it on a message with the given author_role and created_at: a comparison *)
(* with NULL is not true, CAST(created_at AS REAL) is the number itself    *)
(* for a numeric value and the numeric prefix (0.0 when there is none) for *)
(* any other text, and a NaN parameter is bound as NULL.                   *)
(***************************************************************************)
\* author_role=? when role is given.
RoleClause(meta, r) == (r # None /\ r # "") => (meta.author_role # None /\ meta.author_role = r)

\* CAST(created_at AS REAL) >= ? when since is given.
SinceClause(meta, lo) ==
    lo.k # "none" =>
        /\ meta.created_at.k # "null"
        /\ lo.k # "nan"
        /\ ~TsBelow(meta.created_at.v, lo)

\* CAST(created_at AS REAL) <= ? when until is given.
UntilClause(meta, hi) ==
    hi.k # "none" =>
        /\ meta.created_at.k # "null"
        /\ hi.k # "nan"
        /\ ~TsAbove(meta.created_at.v, hi)

LexicalPasses(meta, r, lo, hi) ==
    RoleClause(meta, r) /\ SinceClause(meta, lo) /\ UntilClause(meta, hi)

\* Lines 171-182: the role and time filters of semantic_search.
SemanticPasses(meta, r, lo, hi) == ~RoleRejects(meta, r) /\ ~TimeRejects(meta, lo, hi)

\* C12: for every document and every (role, since, until), the document
\* passes the role and time filters of semantic_search exactly when it
\* passes the predicate of fts_search, documents without a numeric
\* created_at included.
C12_SameFilter ==
    \A i \in 1..Len(docs) :
        SemanticPasses(docs[i].meta, role, since, until)
            <=> LexicalPasses(docs[i].meta, role, since, until)

(***************************************************************************)
(* SpecEmbed: one call of ollama_embed, by the query (search.py, lines     *)
(* 95-103, called once at line 157) or by the backfill job                 *)
(* (semantic_index.py, lines 28-46, a loop of `retries` attempts).  Each   *)
(* attempt is one request to the provider, which answers or fails.         *)
(***************************************************************************)
MaxRetries == 5

ProviderError(kind) == [kind |-> "Exception", text |-> kind]

\* 2 ** i
RECURSIVE Pow2(_)
Pow2(i) == IF i = 0 THEN 1 ELSE 2 * Pow2(i - 1)

\* The wait doubled at every attempt, with no ceiling.
BackoffUncapped(i) == Pow2(i)

\* time.sleep(min(2 ** i, 10)) of semantic_index.py, line 44.
Backoff(i) == Min2(Pow2(i), 10)

InitEmbed ==
    /\ pc = "embed"
    /\ job \in {"query", "backfill"}
    /\ retries \in (IF job = "backfill" THEN 1..MaxRetries ELSE {0})
    /\ attempt = 0 /\ slept = <<>>
    /\ embed_calls = 0 /\ provider = None
    /\ qv = <<>> /\ exc = NoExc
    /\ query \in {<<"a">>, <<"a", " ", "b">>}
    /\ role = None /\ match = <<>> /\ limit = 0 /\ docs = <<>> /\ min_len = 0
    /\ vec = <<>> /\ cos = NoCos
    /\ events = <<>> /\ handles = <<>> /\ last = NoOp
    /\ top = 0 /\ group = FALSE /\ ev_status = None /\ out = NoOutput
    /\ tags_file = SampleFile /\ fts_rows = <<>> /\ sem_rows = <<>> /\ project = None
    /\ merged = NotMerged
    /\ IdleTimes /\ IdleGroup /\ IdleBackfill
    /\ IdleDetect /\ IdleCli

restOfEmbed == <<job, retries, query, role, match, limit, docs, min_len, vec, cos, events,
                 handles, last, top, group, ev_status, out, inputVars, merged,
                 timeVars, groupVars, backfillVars, detectVars, cliVars>>

\* search.py, lines 96-103: the request is answered with an embedding.
QueryEmbed ==
    /\ pc = "embed" /\ job = "query"
    /\ embed_calls' = embed_calls + 1
    /\ provider' = "ok"
    /\ qv' \in QueryVectors
    /\ pc' = "returned"
    /\ UNCHANGED <<restOfEmbed, attempt, slept, exc>>

\* The failure answered by one more attempt, as the backfill does.
QueryEmbedRetries ==
    /\ pc = "embed" /\ job = "query"
    /\ embed_calls < MaxRetries
    /\ embed_calls' = embed_calls + 1
    /\ \E kind \in ProviderFailures :
          provider' = kind /\ exc' = ProviderError(kind)
    /\ pc' = IF embed_calls' < MaxRetries THEN "embed" ELSE "raised"
    /\ UNCHANGED <<restOfEmbed, attempt, slept, qv>>

\* search.py, lines 98-102: urlopen raises or the embedding is empty; the
\* exception leaves ollama_embed and semantic_search (line 157).
QueryEmbedRaises ==
    /\ pc = "embed" /\ job = "query"
    /\ embed_calls' = embed_calls + 1
    /\ \E kind \in ProviderFailures :
          provider' = kind /\ exc' = ProviderError(kind)
    /\ pc' = "raised"
    /\ UNCHANGED <<restOfEmbed, attempt, slept, qv>>

\* semantic_index.py, lines 30-41: attempt i succeeds.
BackfillEmbed ==
    /\ pc = "embed" /\ job = "backfill"
    /\ attempt < retries
    /\ embed_calls' = embed_calls + 1
    /\ provider' = "ok"
    /\ qv' \in QueryVectors
    /\ pc' = "returned"
    /\ UNCHANGED <<restOfEmbed, attempt, slept, exc>>

\* semantic_index.py, lines 30-44: attempt i fails; the exception is kept
\* in last_err, the loop sleeps and goes on.
BackfillEmbedFails ==
    /\ pc = "embed" /\ job = "backfill"
    /\ attempt < retries
    /\ embed_calls' = embed_calls + 1
    /\ \E kind \in ProviderFailures :
          provider' = kind /\ exc' = ProviderError(kind)
    /\ slept' = Append(slept, Backoff(attempt))
    /\ attempt' = attempt + 1
    /\ pc' = "embed"
    /\ UNCHANGED <<restOfEmbed, qv>>

\* semantic_index.py, line 46: raise last_err.
BackfillEmbedRaises ==
    /\ pc = "embed" /\ job = "backfill"
    /\ attempt = retries
    /\ pc' = "raised"
    /\ UNCHANGED <<restOfEmbed, attempt, slept, qv, exc, embed_calls, provider>>

NextEmbed ==
    \/ QueryEmbed
    \/ QueryEmbedRaises
    \/ BackfillEmbed
    \/ BackfillEmbedFails
    \/ BackfillEmbedRaises

SpecEmbed == InitEmbed /\ [][NextEmbed]_vars

\* C13: a query makes exactly one call to the embedding provider and never
\* a second one: it has made one call when ollama_embed has returned or
\* raised, and the first failure is the exception it raises; more than one
\* call is made only by the backfill job, which makes `retries` calls with
\* a sleep after each before it raises.
C13_NoRetryAtQueryTime ==
    /\ job = "query" =>
          /\ embed_calls <= 1
          /\ slept = <<>>
          /\ pc \in {"returned", "raised"} => embed_calls = 1
          /\ provider \in ProviderFailures => pc = "raised" /\ exc = ProviderError(provider)
    /\ embed_calls > 1 => job = "backfill"
    /\ (job = "backfill" /\ pc = "raised") =>
          /\ embed_calls = retries
          /\ slept = [i \in 1..retries |-> Backoff(i - 1)]

\* A query that failed after its one call.
C13_Witness ==
    /\ job = "query" /\ pc = "raised"
    /\ embed_calls = 1 /\ provider \in ProviderFailures

(***************************************************************************)
(* SpecArrival: one call of _merge_results (line 325) on the rows of the   *)
(* two searches in any order of arrival.  The rows of one search have      *)
(* distinct ids; m3, m4 and m5 have no numeric created_at, so hits of      *)
(* equal score among them have equal sort keys.                            *)
(***************************************************************************)
ArrivalLexPool ==
    {Lex("m1", 5, TextPlain), Lex("m2", 20, TextIris), Lex("m3", 5, TextBoth),
     Lex("m4", 5, TextIris)}

ArrivalSemPool ==
    {Sem("m2", 9000, TextPlain), Sem("m3", 4000, TextPlain), Sem("m4", 4000, TextBoth),
     Sem("m5", 4000, TextIris)}

InitArrival ==
    /\ pc = "merge"
    /\ tags_file = SampleFile
    /\ fts_rows \in {rows \in SeqsUpTo(ArrivalLexPool, MaxFts) : DistinctIds(rows)}
    /\ sem_rows \in {rows \in SeqsUpTo(ArrivalSemPool, MaxSem) : DistinctIds(rows)}
    /\ project \in {None, "Iris"}
    /\ merged = NotMerged
    /\ IdleTimes /\ IdleGroup /\ IdleQuery

SpecArrival == InitArrival /\ [][NextMerge]_vars

\* The orders in which the rows s can arrive.
Orders(s) == {t \in [1..Len(s) -> Range(s)] : Range(t) = Range(s)}

\* What the merge returns for the same rows in another order of arrival.
Rearranged ==
    {_merge_results(f, s, project, tags_file).items :
        f \in Orders(fts_rows), s \in Orders(sem_rows)}

\* The key the merged hits are sorted by (lines 259-265), sign dropped.
SortKey(x) == <<x.score, SortTs(x.created_at)>>

\* C14 as claimed: for the same lexical hits and the same semantic hits the
\* merged result (hits and final order) is the same in whichever order the
\* results reach the merger.
C14_Commutative ==
    Returned => \A other \in Rearranged : other = Hits

\* C14, amended: in whichever order the results reach the merger, the
\* merged hits are the same set (id, score, sources, preview, tags), and
\* the final sequence has the same sort keys position by position: only
\* hits of equal score and equal sort timestamp can change places.
C14_CommutativeUpToTies ==
    Returned =>
        \A other \in Rearranged :
            /\ Range(other) = Range(Hits)
            /\ Len(other) = Len(Hits)
            /\ \A i \in 1..Len(Hits) : SortKey(other[i]) = SortKey(Hits[i])

\* Two hits of equal score and equal sort timestamp returned in the order
\* they arrived in, which another order of arrival exchanges.
C14_Witness ==
    /\ Returned
    /\ Len(fts_rows) >= 2 /\ Len(sem_rows) >= 1
    /\ \E other \in Rearranged :
          /\ other # Hits
          /\ \E i \in 1..(Len(Hits) - 1) :
                /\ SortKey(Hits[i]) = SortKey(Hits[i + 1])
                /\ other[i] = Hits[i + 1] /\ other[i + 1] = Hits[i]

(***************************************************************************)
(* fts_search (lines 124-153): the MATCH parameter, and the rows SQLite    *)
(* returns for the statement: messages the index matches that satisfy the  *)
(* WHERE clause, by bm25 ascending then CAST(created_at AS REAL)           *)
(* descending (NULL last), at most `limit` of them.  Which messages the    *)
(* index matches is the index's choice.                                    *)
(***************************************************************************)
Quote == "\""

\* query.replace(c, '')
RECURSIVE Remove(_, _)
Remove(s, c) ==
    IF s = <<>> THEN <<>>
    ELSE (IF Head(s) = c THEN <<>> ELSE <<Head(s)>>) \o Remove(Tail(s), c)

\* Line 134.
MatchOf(q) ==
    IF Contains(q, " ") THEN <<Quote>> \o Remove(q, Quote) \o <<Quote>> ELSE q

\* ORDER BY bm25 ASC, CAST(created_at AS REAL) DESC: a may come before b.
RankedBefore(a, b) ==
    \/ a.bm25 < b.bm25
    \/ /\ a.bm25 = b.bm25
       /\ \/ b.created_at.k = "null"
          \/ a.created_at.k # "null" /\ a.created_at.v >= b.created_at.v

\* The results fts_search can return from the messages of the archive.
FtsResults(archive, r, lo, hi, n) ==
    {rows \in SeqsUpTo(archive, n) :
        /\ DistinctIds(rows)
        /\ \A i \in 1..Len(rows) : LexicalPasses(rows[i], r, lo, hi)
        /\ \A i, j \in 1..Len(rows) : i < j => RankedBefore(rows[i], rows[j])}

(***************************************************************************)
(* SpecFts: one call fts_search(con, query, role, since, until, limit).    *)
(***************************************************************************)
Queries ==
    {<<"a">>, <<"a", " ", "b">>, <<"a", "\t", "b">>, <<"a", "\n", "b">>,
     <<"a", Quote, "b">>, <<Quote, "a", " ", "b", Quote>>, <<" ">>,
     <<"a", " ", Quote, "b", "\t", "c">>}

FtsArchive ==
    {Lex("m1", 5, TextPlain), Lex("m2", 20, TextPlain), Lex("m3", 5, TextIris),
     [Lex("m4", 5, TextBoth) EXCEPT !.created_at = NoCreated]}

InitFts ==
    /\ pc = "fts_search"
    /\ query \in Queries
    /\ role \in {None, "user"}
    /\ since \in Bounds
    /\ until \in Bounds
    /\ limit \in 0..MaxFts
    /\ match = <<>> /\ fts_rows = <<>>
    /\ docs = <<>> /\ min_len = 0 /\ qv = <<>> /\ vec = <<>> /\ cos = NoCos
    /\ since_arg = Absent /\ until_arg = Absent
    /\ tags_file = SampleFile /\ sem_rows = <<>> /\ project = None
    /\ merged = NotMerged
    /\ top = 0 /\ group = FALSE /\ provider = None
    /\ ev_status = None /\ out = NoOutput /\ embed_calls = 0
    /\ IdleGroup /\ IdleLedger /\ IdleEmbed /\ IdleBackfill
    /\ IdleDetect /\ IdleCli

restOfFts == <<query, role, since, until, limit, docs, min_len, qv, vec, cos,
               since_arg, until_arg, tags_file, sem_rows, project, merged, top, group,
               provider, ev_status, out, embed_calls, groupVars, ledgerVars, embedVars,
               backfillVars, detectVars, cliVars>>

FtsSearchCall ==
    /\ pc = "fts_search"
    /\ match' = MatchOf(query)
    /\ fts_rows' \in FtsResults(FtsArchive, role, since, until, limit)
    /\ pc' = "fts_returned"
    /\ UNCHANGED restOfFts

NextFts == FtsSearchCall

SpecFts == InitFts /\ [][NextFts]_vars

QueryWhitespace == {" ", "\t", "\n"}

\* C15: fts_search issues a phrase match whenever the query holds a
\* whitespace character (a space or any other): the match string is the
\* query without its double quotes, inside one pair of double quotes; a
\* query without whitespace is issued unchanged.
C15_PhraseOnWhitespace ==
    pc = "fts_returned" =>
        match = IF \E i \in 1..Len(query) : query[i] \in QueryWhitespace
                THEN <<Quote>> \o Remove(query, Quote) \o <<Quote>>
                ELSE query

(***************************************************************************)
(* The order and the cut of semantic_search, checked under SpecSem.        *)
(***************************************************************************)
\* The rows of the store that pass the three filters.
Survivors == {i \in 1..Len(docs) : Survives(docs[i], role, since, until, min_len)}

\* The similarity of row i to the query vector.
Similarity(i) == cosine(qv, docs[i].v)

\* C16: semantic_search returns the surviving candidates sorted by cosine
\* similarity descending and cut to top: at most top hits (all survivors
\* when they are fewer), each a survivor returned once, adjacent hits of
\* non-increasing similarity, and no survivor left out that is strictly
\* more similar than a returned hit.
C16_SortedAndCut ==
    Searched =>
        /\ Len(sem_rows) = Min2(top, Cardinality(Survivors))
        /\ \A h \in 1..Len(sem_rows) : RowOf(sem_rows[h]) \in Survivors
        /\ \A h, k \in 1..Len(sem_rows) : sem_rows[h].id = sem_rows[k].id => h = k
        /\ \A h \in 1..(Len(sem_rows) - 1) :
              /\ sem_rows[h].score >= sem_rows[h + 1].score
              /\ ~QuotientLess(Similarity(RowOf(sem_rows[h])), Similarity(RowOf(sem_rows[h + 1])))
        /\ \A i \in Survivors :
              docs[i].id \notin ReturnedIds =>
                  \A h \in 1..Len(sem_rows) :
                      ~QuotientLess(Similarity(RowOf(sem_rows[h])), Similarity(i))

\* The cut and the sort both act: a survivor is left out, and a returned
\* hit comes before a less similar one that precedes it in the store.
C16_Witness ==
    /\ Searched /\ top >= 2
    /\ Len(sem_rows) = top
    /\ Cardinality(Survivors) > top
    /\ \E h \in 1..(Len(sem_rows) - 1) :
          /\ RowOf(sem_rows[h]) > RowOf(sem_rows[h + 1])
          /\ sem_rows[h].score > sem_rows[h + 1].score

(***************************************************************************)
(* What _group_by_conversation is to return, stated from its arguments and *)
(* checked under SpecGroup.                                                *)
(***************************************************************************)
GroupItems == merged.items

\* The bucket a hit belongs to: its conversation_id, 'unknown' when absent.
ConversationOf(it) == IF it.conversation_id = None THEN "unknown" ELSE it.conversation_id

Conversations == {ConversationOf(GroupItems[i]) : i \in 1..Len(GroupItems)}

BucketOf(c) == {i \in 1..Len(GroupItems) : ConversationOf(GroupItems[i]) = c}

BestOf(c) == SetMax({GroupItems[i].score : i \in BucketOf(c)})

\* C17: the hits are bucketed by conversation_id, those without an id in
\* one bucket 'unknown'; the groups returned are the max_conversations
\* buckets of highest best score, in best-score descending order; the hits
\* of a group are in score descending order and are the
\* max_hits_per_conversation highest-scoring hits of its bucket.
C17_Grouping ==
    pc = "grouped" =>
        /\ Len(grouped) = Min2(g_convos, Cardinality(Conversations))
        /\ \A g \in 1..Len(grouped) : grouped[g].conversation_id \in Conversations
        /\ \A g, h \in 1..Len(grouped) :
              grouped[g].conversation_id = grouped[h].conversation_id => g = h
        /\ \A g \in 1..(Len(grouped) - 1) :
              BestOf(grouped[g].conversation_id) >= BestOf(grouped[g + 1].conversation_id)
        /\ \A c \in Conversations :
              (\A g \in 1..Len(grouped) : grouped[g].conversation_id # c) =>
                  \A g \in 1..Len(grouped) : BestOf(grouped[g].conversation_id) >= BestOf(c)
        /\ \A g \in 1..Len(grouped) :
              LET hits == grouped[g].hits
                  bucket == BucketOf(grouped[g].conversation_id)
              IN  /\ Len(hits) = Min2(g_per, Cardinality(bucket))
                  /\ \A k \in 1..Len(hits) : \E i \in bucket : hits[k] = GroupItems[i]
                  /\ \A k \in 1..(Len(hits) - 1) : hits[k].score >= hits[k + 1].score
                  /\ \A v \in {GroupItems[i].score : i \in bucket} :
                        Cardinality({k \in 1..Len(hits) : hits[k].score >= v})
                            = Min2(g_per, Cardinality({i \in bucket : GroupItems[i].score >= v}))

\* Two hits without a conversation_id share the bucket 'unknown', which is
\* returned before the bucket of the first hit; the other bucket and the
\* lower-scoring hit of 'unknown', which arrived first, are cut.
C17_Witness ==
    /\ pc = "grouped" /\ g_convos = 1 /\ g_per = 1
    /\ Cardinality(Conversations) = 2
    /\ ConversationOf(GroupItems[1]) # "unknown"
    /\ Len(grouped) = 1
    /\ grouped[1].conversation_id = "unknown"
    /\ Cardinality(BucketOf("unknown")) = 2
    /\ GroupItems[2].score < GroupItems[3].score
    /\ grouped[1].hits = <<GroupItems[3]>>

(***************************************************************************)
(* SpecCosine: one call cosine(a, b), a held in qv and b in vec.  The      *)
(* vectors have integral norms; their lengths may differ, zip() then       *)
(* stops at the shorter one.                                               *)
(***************************************************************************)
Vectors ==
    {<<>>, <<0>>, <<0, 0>>, <<0, 0, 0>>, <<1>>, <<1, 0>>, <<0, 1>>, <<-1, 0>>,
     <<0, -1>>, <<3, 4>>, <<4, 3>>, <<-3, 4>>, <<3, 4, 0>>}

InitCosine ==
    /\ pc = "cosine"
    /\ qv \in Vectors
    /\ vec \in Vectors
    /\ cos = NoCos
    /\ query = <<>> /\ role = None /\ match = <<>> /\ limit = 0 /\ docs = <<>>
    /\ min_len = 0
    /\ tags_file = SampleFile /\ fts_rows = <<>> /\ sem_rows = <<>> /\ project = None
    /\ merged = NotMerged
    /\ top = 0 /\ group = FALSE /\ provider = None
    /\ ev_status = None /\ out = NoOutput /\ embed_calls = 0
    /\ IdleTimes /\ IdleGroup /\ IdleLedger /\ IdleEmbed /\ IdleBackfill
    /\ IdleDetect /\ IdleCli

restOfCosine == <<qv, vec, query, role, match, limit, docs, min_len, inputVars, merged,
                  top, group, provider, ev_status, out, embed_calls, timeVars,
                  groupVars, ledgerVars, embedVars, backfillVars, detectVars, cliVars>>

CosineCall ==
    /\ pc = "cosine"
    /\ cos' = cosine(qv, vec)
    /\ pc' = IF cos'.k = "raise" THEN "raised" ELSE "cosine_returned"
    /\ UNCHANGED restOfCosine

NextCosine == CosineCall

SpecCosine == InitCosine /\ [][NextCosine]_vars

IsZeroVector(v) == \A i \in 1..Len(v) : v[i] = 0

\* C18: cosine returns exactly 0.0, and does not raise, whenever one of its
\* arguments is a zero vector, whatever the other one.
C18_ZeroVector ==
    (pc # "cosine" /\ (IsZeroVector(qv) \/ IsZeroVector(vec))) =>
        /\ pc = "cosine_returned"
        /\ cos = Quotient(0, 1)

\* One argument is a zero vector and the other is not.
C18_Witness ==
    /\ pc = "cosine_returned"
    /\ Len(qv) > 0 /\ Len(vec) > 0
    /\ IsZeroVector(qv) # IsZeroVector(vec)
    /\ cos = Quotient(0, 1)

(***************************************************************************)
(* Dates and timestamps of the same instant, checked under SpecTime with   *)
(* the date in --since and the timestamp in --until.                       *)
(***************************************************************************)
MidnightUtc == <<"T", "0", "0", ":", "0", "0", ":", "0", "0", "+", "0", "0", ":", "0", "0">>

MidnightNaive == <<"T", "0", "0", ":", "0", "0", ":", "0", "0">>

ExampleDate == <<"2", "0", "2", "6", "-", "0", "2", "-", "0", "1">>

\* C19: _parse_time maps a YYYY-MM-DD date and the ISO-8601 timestamp of
\* midnight UTC of that date to the same epoch timestamp, the timestamp
\* being written with +00:00 or with no timezone (then read as UTC); for
\* 2026-02-01 it is 1769904000.
C19_DateIsMidnightUtc ==
    (/\ pc = "parsed"
     /\ since_arg.some /\ until_arg.some
     /\ KindOf(since_arg) = "date"
     /\ until_arg.text \in {Strip(since_arg.text) \o MidnightUtc,
                            Strip(since_arg.text) \o MidnightNaive}) =>
        /\ since.k = "num"
        /\ until = since
        /\ since_arg.text = ExampleDate => since = TimeOfSeconds(1769904000)

\* The example of the claim, and a date with a timestamp without timezone.
C19_Witness ==
    /\ pc = "parsed"
    /\ since.k = "num" /\ until = since
    /\ \/ /\ since_arg = Given(ExampleDate)
          /\ until_arg = Given(ExampleDate \o MidnightUtc)
       \/ /\ since_arg = Given(<<" ">> \o <<"2", "0", "2", "4", "-", "0", "2", "-", "2", "9">>)
          /\ until_arg = Given(<<"2", "0", "2", "4", "-", "0", "2", "-", "2", "9">> \o MidnightNaive)

(***************************************************************************)
(* action_log.py: the ledger table `events` and the context manager        *)
(* log_event.  A row is [status, error, ended]; its id is its position     *)
(* (INTEGER PRIMARY KEY AUTOINCREMENT, rows are never deleted).  The error *)
(* column is [e, tb]: the text stored and whether a traceback follows it,  *)
(* NoError for NULL.  An exception is [kind, text]: kind "Exception" for   *)
(* an instance of Exception, "BaseException" for one that is not           *)
(* (KeyboardInterrupt, SystemExit, GeneratorExit).                         *)
(***************************************************************************)
NoError == [e |-> None, tb |-> FALSE]

ErrorText(text) == [e |-> text, tb |-> FALSE]

\* str(e) + "\n" + traceback.format_exc()  (line 144)
WithTraceback(e) == [e |-> e.text, tb |-> TRUE]

\* The row log_event inserts (lines 126-137).
RunningRow == [status |-> "running", error |-> NoError, ended |-> FALSE]

\* The UPDATE without its WHERE clause: every row is set.
FinishEveryRow(rows, row_id, status, error) ==
    [r \in 1..Len(rows) |-> [status |-> status, error |-> error, ended |-> TRUE]]

\* _EventHandle._finish (lines 96-111): UPDATE events SET ts_end, status,
\* seconds, extra_json, error WHERE id = row_id.
_finish(rows, row_id, status, error) ==
    [rows EXCEPT ![row_id] = [status |-> status, error |-> error, ended |-> TRUE]]

\* ok (87-88), warn (90-91), fail (93-94).
ok(rows, row_id) == _finish(rows, row_id, "ok", NoError)

warn(rows, row_id, error) == _finish(rows, row_id, "warn", error)

fail(rows, row_id, error) == _finish(rows, row_id, "error", error)

\* `except Exception as e` (line 143) catches e.
IsException(e) == e.kind = "Exception"

\* Lines 141-145 for the exception e leaving the body of the with-block of
\* row_id: the rows afterwards; e itself goes on to the caller.
OnBodyException(rows, row_id, e) ==
    IF IsException(e) THEN fail(rows, row_id, WithTraceback(e)) ELSE rows

(***************************************************************************)
(* SpecLedger: a process that enters log_event blocks (nested or one after *)
(* the other), calls ok/warn/fail on the handles of its open blocks, and   *)
(* leaves a block by reaching its end or by an exception.                  *)
(***************************************************************************)
MaxEvents == 3

Exceptions ==
    {[kind |-> "Exception", text |-> "boom"],
     [kind |-> "BaseException", text |-> "KeyboardInterrupt"]}

ErrorArgs == {NoError, ErrorText("returncode=1")}

Op(op, row) == [op |-> op, row |-> row]

Innermost == handles[Len(handles)]

InitLedger ==
    /\ pc = "ledger"
    /\ events = <<>> /\ handles = <<>> /\ exc = NoExc /\ last = NoOp
    /\ query = <<>> /\ role = None /\ match = <<>> /\ limit = 0 /\ docs = <<>>
    /\ min_len = 0 /\ qv = <<>> /\ vec = <<>> /\ cos = NoCos
    /\ tags_file = SampleFile /\ fts_rows = <<>> /\ sem_rows = <<>> /\ project = None
    /\ merged = NotMerged
    /\ top = 0 /\ group = FALSE /\ provider = None
    /\ ev_status = None /\ out = NoOutput /\ embed_calls = 0
    /\ IdleTimes /\ IdleGroup /\ IdleEmbed /\ IdleBackfill
    /\ IdleDetect /\ IdleCli

restOfLedger == <<searchVars, inputVars, merged, top, group, provider, ev_status, out,
                  embed_calls, timeVars, groupVars, embedVars, backfillVars, detectVars, cliVars>>

\* log_event up to its yield (lines 122-142).
EnterBlock ==
    /\ pc = "ledger" /\ exc = NoExc
    /\ Len(events) < MaxEvents
    /\ events' = Append(events, RunningRow)
    /\ handles' = Append(handles, Len(events) + 1)
    /\ last' = Op("enter", Len(events) + 1)
    /\ UNCHANGED <<pc, exc, restOfLedger>>

\* The body calls ev.ok() on the handle of an open block.
CallOk ==
    /\ pc = "ledger" /\ exc = NoExc
    /\ \E h \in Range(handles) :
          /\ events' = ok(events, h)
          /\ last' = Op("ok", h)
    /\ UNCHANGED <<pc, handles, exc, restOfLedger>>

\* The body calls ev.warn(error=...).
CallWarn ==
    /\ pc = "ledger" /\ exc = NoExc
    /\ \E h \in Range(handles), error \in ErrorArgs :
          /\ events' = warn(events, h, error)
          /\ last' = Op("warn", h)
    /\ UNCHANGED <<pc, handles, exc, restOfLedger>>

\* The body calls ev.fail(error).
CallFail ==
    /\ pc = "ledger" /\ exc = NoExc
    /\ \E h \in Range(handles) :
          /\ events' = fail(events, h, ErrorText("returncode=1"))
          /\ last' = Op("fail", h)
    /\ UNCHANGED <<pc, handles, exc, restOfLedger>>

\* The body of the innermost block reaches its end: log_event finishes
\* after its yield and touches nothing.
LeaveBlock ==
    /\ pc = "ledger" /\ exc = NoExc
    /\ handles # <<>>
    /\ handles' = SubSeq(handles, 1, Len(handles) - 1)
    /\ last' = Op("leave", Innermost)
    /\ UNCHANGED <<pc, events, exc, restOfLedger>>

\* The body of the innermost block raises e (lines 141-145).
BodyRaises ==
    /\ pc = "ledger" /\ exc = NoExc
    /\ handles # <<>>
    /\ \E e \in Exceptions :
          /\ events' = OnBodyException(events, Innermost, e)
          /\ exc' = e
    /\ handles' = SubSeq(handles, 1, Len(handles) - 1)
    /\ last' = Op("raise", Innermost)
    /\ pc' = IF handles' = <<>> THEN "crashed" ELSE pc
    /\ UNCHANGED restOfLedger

\* The exception raised again by an inner block leaves the body of the
\* block around it (lines 141-145).
Propagate ==
    /\ pc = "ledger" /\ exc # NoExc
    /\ handles # <<>>
    /\ events' = OnBodyException(events, Innermost, exc)
    /\ handles' = SubSeq(handles, 1, Len(handles) - 1)
    /\ last' = Op("raise", Innermost)
    /\ pc' = IF handles' = <<>> THEN "crashed" ELSE pc
    /\ UNCHANGED <<exc, restOfLedger>>

NextLedger ==
    \/ EnterBlock
    \/ CallOk
    \/ CallWarn
    \/ CallFail
    \/ LeaveBlock
    \/ BodyRaises
    \/ Propagate

SpecLedger == InitLedger /\ [][NextLedger]_vars

(***************************************************************************)
(* What one step of the ledger may do, by the operation it performs.       *)
(***************************************************************************)
StatusSetBy(op) ==
    CASE op = "ok" -> "ok" [] op = "warn" -> "warn" [] op = "fail" -> "error"
      [] OTHER -> None

\* No row but r changes, and no row is added.
OthersUntouched(r) ==
    /\ Len(events') = Len(events)
    /\ \A k \in 1..Len(events) : k # r => events'[k] = events[k]

\* Entering a block adds one row, 'running', and only then opens the body.
EnterInsertsRunning ==
    last'.op = "enter" =>
        /\ events' = Append(events, RunningRow)
        /\ last'.row = Len(events')
        /\ handles' = Append(handles, last'.row)

\* ok(), warn() and fail() set the status of their own row only.
CallsSetOwnRow ==
    last'.op \in {"ok", "warn", "fail"} =>
        /\ events'[last'.row].status = StatusSetBy(last'.op)
        /\ OthersUntouched(last'.row)

\* The exception that left the body is the one raised to the caller.
RaisedAgain == exc' # NoExc /\ (exc # NoExc => exc' = exc)

\* The row of the block is 'error' with the text of the exception.
MarkedError ==
    /\ events'[last'.row].status = "error"
    /\ events'[last'.row].error = WithTraceback(exc')

Messages == <<"m1", "m2", "m3">>

MaxRuns == 3

MaxLimit == 3

\* Line 126 commits every 100 documents; the interval is scaled down so
\* that a run over Messages crosses it.
CommitEvery == 2

\* Rows of f, with the rows of g inserted or replaced.
InsertOrReplace(f, g) ==
    [id \in DOMAIN f \cup DOMAIN g |-> IF id \in DOMAIN g THEN g[id] ELSE f[id]]

RowBy(mid, r) == [id \in {mid} |-> r]

RECURSIVE SelectFrom(_, _, _)
SelectFrom(msgs, i, rows) ==
    IF i > Len(msgs) THEN <<>>
    ELSE (IF msgs[i] \in DOMAIN rows THEN <<>> ELSE <<msgs[i]>>)
         \o SelectFrom(msgs, i + 1, rows)

\* The candidate query without its `v.id IS NULL`.
CandidatesUnfiltered(rows, lim) == Prefix(Messages, lim)

\* Lines 91-100: LEFT JOIN dst.vecs ... WHERE v.id IS NULL ... LIMIT ?
Candidates(rows, lim) == Prefix(SelectFrom(Messages, 1, rows), lim)

InitBackfill ==
    /\ pc = "idle"
    /\ vecs \in {[id \in S |-> 0] : S \in SUBSET {"m1", "m2"}}
    /\ txn = NoRows /\ candidates = <<>> /\ cursor = 0 /\ embedded = 0
    /\ run = 0 /\ had = NoRows /\ tried = <<>> /\ warned = {}
    /\ tags_file = SampleFile /\ fts_rows = <<>> /\ sem_rows = <<>> /\ project = None
    /\ merged = NotMerged
    /\ top = 0 /\ group = FALSE /\ provider = None
    /\ ev_status = None /\ out = NoOutput /\ embed_calls = 0
    /\ IdleTimes /\ IdleGroup /\ IdleSearch /\ IdleLedger /\ IdleEmbed
    /\ IdleDetect /\ IdleCli

restOfBackfill == <<inputVars, merged, top, group, ev_status, out, embed_calls,
                    timeVars, groupVars, query, role, match, docs, min_len, qv, vec,
                    cos, ledgerVars, embedVars, detectVars, cliVars>>

\* Lines 84-104: a run starts and selects its candidates.
StartRun ==
    /\ pc = "idle" /\ run < MaxRuns
    /\ run' = run + 1
    /\ \E lim \in 1..MaxLimit : limit' = lim
    /\ had' = vecs
    /\ candidates' = Candidates(vecs, limit')
    /\ cursor' = 1 /\ embedded' = 0
    /\ txn' = NoRows /\ tried' = <<>> /\ warned' = {}
    /\ pc' = "loop"
    /\ UNCHANGED <<restOfBackfill, vecs, provider>>

\* Lines 106-129: ollama_embed returns a vector, the rows are written, and
\* every CommitEvery documents the transaction is committed.
EmbedAndStore ==
    /\ pc = "loop" /\ cursor <= Len(candidates)
    /\ LET mid == candidates[cursor]
           written == InsertOrReplace(txn, RowBy(mid, run))
       IN  /\ tried' = Append(tried, mid)
           /\ embedded' = embedded + 1
           /\ IF embedded' % CommitEvery = 0
              THEN vecs' = InsertOrReplace(vecs, written) /\ txn' = NoRows
              ELSE vecs' = vecs /\ txn' = written
    /\ provider' = "ok"
    /\ cursor' = cursor + 1
    /\ UNCHANGED <<restOfBackfill, limit, candidates, run, had, warned, pc>>

\* Lines 113-118: ollama_embed raises an Exception; the document is
\* skipped with a warning and the loop goes on.
EmbedFailsSkipped ==
    /\ pc = "loop" /\ cursor <= Len(candidates)
    /\ tried' = Append(tried, candidates[cursor])
    /\ warned' = warned \cup {candidates[cursor]}
    /\ \E kind \in ProviderFailures : provider' = kind
    /\ cursor' = cursor + 1
    /\ UNCHANGED <<restOfBackfill, limit, candidates, run, had, vecs, txn, embedded, pc>>

\* Lines 131-133: the loop is over; the last commit.
FinalCommit ==
    /\ pc = "loop" /\ cursor > Len(candidates)
    /\ vecs' = InsertOrReplace(vecs, txn)
    /\ txn' = NoRows
    /\ pc' = "idle"
    /\ UNCHANGED <<restOfBackfill, limit, candidates, cursor, run, had, tried, warned,
                   embedded, provider>>

\* The run ends inside its loop: the open transaction is rolled back.
Interrupted ==
    /\ pc = "loop"
    /\ txn' = NoRows
    /\ pc' = "idle"
    /\ UNCHANGED <<restOfBackfill, limit, candidates, cursor, run, had, tried, warned,
                   embedded, provider, vecs>>

NextBackfill ==
    \/ StartRun
    \/ EmbedAndStore
    \/ EmbedFailsSkipped
    \/ FinalCommit
    \/ Interrupted

SpecBackfill == InitBackfill /\ [][NextBackfill]_vars

Skipping == run' = run /\ warned' # warned

Starting == run' # run

\* C21: a message id that has a row in vecs when a run starts is not
\* embedded by that run and its row is not written by it, neither in the
\* open transaction nor in the store; a document whose embedding fails is
\* skipped while the run goes on with the next candidate and keeps what it
\* has written, the document has no row afterwards, and the next run
\* selects every document the previous run skipped unless its limit cuts
\* the selection short.
C21_ResumeSkipsPresent ==
    /\ [](\A id \in DOMAIN had :
              /\ ~Contains(tried, id)
              /\ id \notin DOMAIN txn
              /\ id \in DOMAIN vecs /\ vecs[id] = had[id])
    /\ [](\A id \in warned : id \notin DOMAIN vecs /\ id \notin DOMAIN txn)
    /\ [][Skipping =>
              /\ pc' = "loop" /\ cursor' = cursor + 1
              /\ vecs' = vecs /\ txn' = txn /\ embedded' = embedded]_vars
    /\ [][Starting =>
              \A id \in warned :
                  Contains(candidates', id) \/ Len(candidates') = limit']_vars

\* A third run that found a row of the first run in the store, has skipped
\* a failing document and has written the row of another one.
C21_Witness ==
    /\ run = 3 /\ pc = "loop"
    /\ \E id \in DOMAIN had : had[id] = 1
    /\ \E id \in DOMAIN txn : txn[id] = 3
    /\ warned # {}


(***************************************************************************)
(* SpecRecency: one call of _merge_results on hits of equal score whose    *)
(* created_at is a positive, a zero or a negative epoch value, or a value  *)
(* float() rejects (m3).                                                   *)
(***************************************************************************)
RecencyLexPool ==
    {Lex("m1", 5, TextPlain), Lex("m3", 5, TextPlain), Lex("m6", 5, TextPlain),
     Lex("m7", 5, TextIris)}

RecencySemPool ==
    {Sem("m3", 6667, TextIris), Sem("m6", 6667, TextPlain), Sem("m7", 4000, TextPlain)}

InitRecency ==
    /\ pc = "merge"
    /\ tags_file = SampleFile
    /\ fts_rows \in {rows \in SeqsUpTo(RecencyLexPool, MaxFts) : DistinctIds(rows)}
    /\ sem_rows \in {rows \in SeqsUpTo(RecencySemPool, MaxSem) : DistinctIds(rows)}
    /\ project \in {None, "Iris"}
    /\ merged = NotMerged
    /\ IdleTimes /\ IdleGroup /\ IdleQuery

SpecRecency == InitRecency /\ [][NextMerge]_vars

Parseable(h) == h.created_at.k = "num"

\* C22: in the merged order, among hits of equal score, a hit whose
\* created_at cannot be parsed as a number comes after every hit with a
\* parseable created_at, whatever the value of that timestamp.
C22_UnparseableLast ==
    Returned =>
        \A i, j \in 1..Len(Hits) :
            (/\ Hits[i].score = Hits[j].score
             /\ Parseable(Hits[i]) /\ ~Parseable(Hits[j])) => i < j


(***************************************************************************)
(* SpecNormalize: one call of _merge_results on lexical hits of distinct   *)
(* raw relevance: negative (what bm25() of FTS5 returns), zero, positive.  *)
(***************************************************************************)
NormLexPool ==
    {Lex("m1", -30, TextPlain), Lex("m2", -3, TextPlain), Lex("m3", 0, TextIris),
     Lex("m4", 5, TextPlain), Lex("m5", 20, TextIris)}

NormSemPool == {Sem("m1", 9000, TextPlain), Sem("m8", 4000, TextIris)}

InitNormalize ==
    /\ pc = "merge"
    /\ tags_file = SampleFile
    /\ fts_rows \in {rows \in SeqsUpTo(NormLexPool, MaxFts) : DistinctIds(rows)}
    /\ sem_rows \in {rows \in SeqsUpTo(NormSemPool, MaxSem) : DistinctIds(rows)}
    /\ project \in {None, "Iris"}
    /\ merged = NotMerged
    /\ IdleTimes /\ IdleGroup /\ IdleQuery

SpecNormalize == InitNormalize /\ [][NextMerge]_vars

\* The lexical hits that reached the result with their lexical score alone.
LexicalOnly ==
    {i \in 1..Len(fts_rows) :
        AdmittedFts(fts_rows[i].id) = {i} /\ AdmittedSem(fts_rows[i].id) = {}}

\* The score of the merged hit of a lexical row.
ScoreGiven(i) == (CHOOSE h \in Range(Hits) : h.id = fts_rows[i].id).score

\* C23 as claimed: for two lexical hits a and b with raw(a) < raw(b) the
\* score _merge_results gives to a is strictly higher than the score it
\* gives to b, and raw 0 maps to score 1.0.
C23_StrictlyDecreasing ==
    Returned =>
        \A a, b \in LexicalOnly :
            /\ fts_rows[a].bm25 < fts_rows[b].bm25 => ScoreGiven(a) > ScoreGiven(b)
            /\ fts_rows[a].bm25 = 0 => ScoreGiven(a) = ScoreScale

\* C23, amended: for two lexical hits a and b with raw(a) < raw(b) the
\* score given to a is never lower than the score given to b, and every
\* raw value of zero or below maps to score 1.0.
C23_NonIncreasing ==
    Returned =>
        \A a, b \in LexicalOnly :
            /\ fts_rows[a].bm25 < fts_rows[b].bm25 => ScoreGiven(a) >= ScoreGiven(b)
            /\ fts_rows[a].bm25 <= 0 => ScoreGiven(a) = ScoreScale

\* Two lexical hits of different negative raw relevance, both scored 1.0.
C23_Witness ==
    /\ Returned
    /\ \E a, b \in LexicalOnly :
          /\ fts_rows[a].bm25 < fts_rows[b].bm25 /\ fts_rows[b].bm25 < 0
          /\ ScoreGiven(a) = ScoreScale /\ ScoreGiven(b) = ScoreScale


(***************************************************************************)
(* Tags and sources of a merged hit, stated from the inputs alone.         *)
(***************************************************************************)
\* s without its repeated elements, first occurrences kept in order.
RECURSIVE Dedup(_, _, _)
Dedup(s, i, seen) ==
    IF i > Len(s) THEN seen
    ELSE Dedup(s, i + 1, IF Contains(seen, s[i]) THEN seen ELSE Append(seen, s[i]))

\* The tags of the admitted semantic hits of an id, from hit i on.
RECURSIVE SemTagsFrom(_, _)
SemTagsFrom(mid, i) ==
    IF i > Len(sem_rows) THEN <<>>
    ELSE (IF i \in AdmittedSem(mid) THEN TagsOf(sem_rows[i].text) ELSE <<>>)
         \o SemTagsFrom(mid, i + 1)

\* The tags of the lexical hit of an id that the result keeps.
LexTags(mid) ==
    IF AdmittedFts(mid) = {} THEN <<>>
    ELSE TagsOf(fts_rows[SetMax(AdmittedFts(mid))].snip)

Count(s, x) == Cardinality({i \in 1..Len(s) : s[i] = x})

MaxRules == 2

MaxText == 3

RulePool ==
    {Rule("Iris", PatList(<<Pat(<<"i", "r">>)>>)),
     Rule("Iris", PatList(<<Pat(<<"S">>)>>)),
     Rule("Dolores", PatList(<<Pat(<<>>), Pat(<<"R", "s">>)>>)),
     Rule("Dolores", PatList(<<Pat(<<"i">>), PatNum(5)>>)),
     Rule("", PatList(<<Pat(<<"i">>)>>)),
     Rule(None, PatList(<<Pat(<<"s">>)>>))}

Classified(text, res) == [text |-> text, ok |-> res.ok, tags |-> res.tags]

InitDetect ==
    /\ pc = "detect"
    /\ text_arg \in SeqsUpTo({"i", "R", "s"}, MaxText)
    /\ \E rules \in SeqsUpTo(RulePool, MaxRules) : tags_file = FileObject(Projects(rules))
    /\ classified = <<>> /\ merge_i = 0
    /\ fts_rows = <<>> /\ sem_rows = <<>> /\ project = None
    /\ merged = NotMerged
    /\ IdleTimes /\ IdleGroup
    /\ top = 0 /\ group = FALSE /\ provider = None
    /\ ev_status = None /\ out = NoOutput /\ embed_calls = 0
    /\ IdleSearch /\ IdleLedger /\ IdleEmbed /\ IdleBackfill
    /\ IdleCli

\* Lines 82-92.
DetectCall ==
    /\ pc = "detect"
    /\ classified' = <<Classified(text_arg, _detect_projects(text_arg, tags_file))>>
    /\ pc' = IF classified'[1].ok THEN "detected" ELSE "raised"
    /\ UNCHANGED <<inputVars, merged, timeVars, groupVars, top, group, provider,
                   ev_status, out, embed_calls, searchVars, ledgerVars, embedVars,
                   backfillVars, text_arg, merge_i, cliVars>>

NextDetect == DetectCall

SpecDetect == InitDetect /\ [][NextDetect]_vars

\* Two letters that differ in case at most.
SameLetter(a, b) ==
    \/ a = b
    \/ {a, b} \in {{"i", "I"}, {"r", "R"}, {"s", "S"}}

\* p occurs in s, case ignored.
OccursIn(p, s) ==
    \E k \in 0..(Len(s) - Len(p)) : \A i \in 1..Len(p) : SameLetter(s[k + i], p[i])

RulesGiven == tags_file.projects.rules

IsText(pat) == pat.t = "str"

\* The non-empty text patterns of rule r that occur in the text.
Matching(r) ==
    {j \in 1..Len(r.patterns.pats) :
        /\ IsText(r.patterns.pats[j]) /\ r.patterns.pats[j].s # <<>>
        /\ OccursIn(r.patterns.pats[j].s, text_arg)}

\* Every pattern of r before its first matching one, and every pattern
\* when none matches, is a text.
TestedAreTexts(r) ==
    \A j \in 1..Len(r.patterns.pats) :
        (\A k \in Matching(r) : j < k) => IsText(r.patterns.pats[j])

\* The tags of the rules with a matching pattern, rule by rule.
RECURSIVE MatchedTags(_)
MatchedTags(i) ==
    IF i > Len(RulesGiven) THEN <<>>
    ELSE (IF Matching(RulesGiven[i]) # {} /\ RulesGiven[i].tag \notin {None, ""}
          THEN <<RulesGiven[i].tag>> ELSE <<>>)
         \o MatchedTags(i + 1)

\* C25: _detect_projects returns a duplicate-free tag list in rule order
\* that holds a tag (a non-empty text) exactly when a rule carrying it has
\* a non-empty pattern that occurs in the text, case ignored; a rule gives
\* its tag once at most, and its patterns after the first matching one are
\* not tested (a pattern there that is no text raises nothing).
C25_DetectProjects ==
    (pc # "detect" /\ \A i \in 1..Len(RulesGiven) : TestedAreTexts(RulesGiven[i])) =>
        /\ pc = "detected"
        /\ classified[1].tags = Dedup(MatchedTags(1), 1, <<>>)

\* Two rules of one tag that both match in another case than written, the
\* second by its first pattern, its number pattern left untested.
C25_Witness ==
    /\ pc = "detected"
    /\ Len(RulesGiven) = 2
    /\ RulesGiven[1].tag = "Dolores" /\ RulesGiven[2].tag = "Dolores"
    /\ RulesGiven[1] # RulesGiven[2]
    /\ Matching(RulesGiven[1]) # {} /\ Matching(RulesGiven[2]) # {}
    /\ classified[1].tags = <<"Dolores">>


\* The seconds waited after the failed attempts 0, 1, 2, ...
ExpectedWaits == <<1, 2, 4, 8, 10, 10, 10, 10>>

\* C26: the backfill's ollama_embed makes at most `retries` attempts; it
\* has waited min(2^i, 10) seconds after each failed attempt i (from 0);
\* it returns the vector at the first attempt that succeeds, with no
\* attempt after it; after `retries` failures in a row it raises the error
\* of the last attempt.
C26_BoundedRetries ==
    job = "backfill" =>
        /\ embed_calls <= retries
        /\ Len(slept) = attempt
        /\ \A i \in 1..Len(slept) : slept[i] = ExpectedWaits[i]
        /\ pc = "returned" =>
              /\ provider = "ok" /\ qv # <<>>
              /\ embed_calls = attempt + 1
        /\ pc = "raised" =>
              /\ embed_calls = retries /\ attempt = retries
              /\ provider \in ProviderFailures /\ exc = ProviderError(provider)
        /\ pc = "embed" => embed_calls = attempt

\* Five attempts failed, the last wait capped at 10 seconds, and the error
\* was raised.
C26_Witness ==
    /\ job = "backfill" /\ pc = "raised"
    /\ retries = 5
    /\ slept = <<1, 2, 4, 8, 10>>


\* C27: in group mode what main() prints under 'grouped' is the grouper
\* applied to the whole merged sequence: the cut of the merged list to its
\* first max(top, convos * per_convo) hits before grouping removes no
\* conversation and no hit that grouping the whole list would return.
C27_GroupsOfWholeMerge ==
    (pc = "done" /\ group) =>
        out.items = _group_by_conversation(merged.items, g_convos, g_per)


\* The rows of the log_event contexts that have exited.
Exited == {r \in 1..Len(events) : ~Contains(handles, r)}

\* C28: once its log_event context has exited, by reaching its end or by
\* an exception, the row of an event is not left in status 'running': its
\* status is 'ok', 'warn' or 'error'.
C28_NeverLeftRunning ==
    \A r \in Exited : events[r].status \in {"ok", "warn", "error"}


(***************************************************************************)
(* SpecRace: one call of _merge_results taken loop iteration by loop       *)
(* iteration, while another process writes, removes or creates the rule    *)
(* file.  Every iteration calls _detect_projects, which reads the file     *)
(* anew (_load_project_rules, lines 72-79).                                *)
(***************************************************************************)
RaceLexPool ==
    {Lex("m1", 5, TextIris), Lex("m2", 5, TextIris), Lex("m3", 5, TextPlain)}

RaceSemPool == {Sem("m2", 9000, TextIris), Sem("m4", 4000, TextIris)}

\* The rule file as shipped, removed, and rewritten with another tag.
RaceFiles ==
    {SampleFile, FileOther("absent"),
     FileObject(Projects(<<Rule("Dolores", PatList(<<Pat(<<"i", "r", "i", "s">>)>>))>>))}

InitRace ==
    /\ pc = "fts_loop"
    /\ tags_file \in RaceFiles
    /\ fts_rows \in {rows \in SeqsUpTo(RaceLexPool, MaxFts) : DistinctIds(rows)}
    /\ sem_rows \in {rows \in SeqsUpTo(RaceSemPool, MaxSem) : DistinctIds(rows)}
    /\ project \in {None, "Iris"}
    /\ merged = NotMerged
    /\ text_arg = <<>> /\ classified = <<>> /\ merge_i = 1
    /\ IdleTimes /\ IdleGroup
    /\ top = 0 /\ group = FALSE /\ provider = None
    /\ ev_status = None /\ out = NoOutput /\ embed_calls = 0
    /\ IdleSearch /\ IdleLedger /\ IdleEmbed /\ IdleBackfill
    /\ IdleCli

restOfRace == <<fts_rows, sem_rows, project, timeVars, groupVars, top, group, provider,
                ev_status, out, embed_calls, searchVars, ledgerVars, embedVars,
                backfillVars, text_arg, cliVars>>

\* Lines 212-227: one iteration of the loop over fts_rows, or its end.
MergeFtsStep ==
    /\ pc = "fts_loop"
    /\ IF merge_i > Len(fts_rows)
       THEN /\ pc' = "sem_loop" /\ merge_i' = 1
            /\ UNCHANGED <<merged, classified>>
       ELSE /\ merged' = FtsStep(merged.items, fts_rows[merge_i], project, tags_file)
            /\ classified' = Append(classified,
                   Classified(fts_rows[merge_i].snip,
                              _detect_projects(fts_rows[merge_i].snip, tags_file)))
            /\ merge_i' = merge_i + 1
            /\ pc' = IF merged'.ok THEN pc ELSE "raised"
    /\ UNCHANGED <<restOfRace, tags_file>>

\* Lines 229-256: one iteration of the loop over sem_rows.
MergeSemStep ==
    /\ pc = "sem_loop" /\ merge_i <= Len(sem_rows)
    /\ merged' = SemStep(merged.items, sem_rows[merge_i], project, tags_file)
    /\ classified' = Append(classified,
           Classified(sem_rows[merge_i].text,
                      _detect_projects(sem_rows[merge_i].text, tags_file)))
    /\ merge_i' = merge_i + 1
    /\ pc' = IF merged'.ok THEN pc ELSE "raised"
    /\ UNCHANGED <<restOfRace, tags_file>>

\* Lines 258-269: the sort and the return.
MergeSortReturn ==
    /\ pc = "sem_loop" /\ merge_i > Len(sem_rows)
    /\ merged' = [ok |-> TRUE, items |-> SortItems(merged.items, 1, <<>>)]
    /\ pc' = "merged"
    /\ UNCHANGED <<restOfRace, tags_file, classified, merge_i>>

\* Another process replaces, removes or creates project_tags.json.
RulesFileChanges ==
    /\ pc \in {"fts_loop", "sem_loop"}
    /\ tags_file' \in RaceFiles \ {tags_file}
    /\ UNCHANGED <<restOfRace, merged, classified, merge_i, pc>>

NextRace ==
    \/ MergeFtsStep
    \/ MergeSemStep
    \/ MergeSortReturn
    \/ RulesFileChanges

SpecRace == InitRace /\ [][NextRace]_vars

\* C29: within one call of _merge_results two hits with identical text
\* receive identical tags, and so the same verdict of the project filter,
\* also when the rule file changes while the merge runs.
C29_OneRuleSetPerMerge ==
    \A i, j \in 1..Len(classified) :
        classified[i].text = classified[j].text =>
            /\ classified[i].tags = classified[j].tags
            /\ Dropped(project, classified[i].tags) = Dropped(project, classified[j].tags)


(***************************************************************************)
(* SpecCli: one run of main() of semantic_search.py.  The with-block of    *)
(* log_event holds the embedding call and the connect only (lines 59-62);  *)
(* the rows are read, scored and sorted after it (lines 63-71); ev.ok()    *)
(* and print() stand in the body of the loop that builds `out` (lines      *)
(* 74-84), once per hit.                                                   *)
(***************************************************************************)
CliTextCut == 400

CliDocPool ==
    {Doc("d1", <<1, 0>>, Meta("c1", "user", Numeric(100)), StoredText(Chars(3))),
     Doc("d3", <<3, 4>>, Meta("c2", "assistant", Numeric(200)), StoredText(Chars(CliTextCut + 1))),
     Doc("d4", <<4, 3>>, Meta(None, "user", Numeric(100)), NullText)}

\* Lines 65-69: every row is scored, none is filtered.
CliScored(rows, q) == [i \in 1..Len(rows) |-> [s |-> cosine(q, rows[i].v), d |-> rows[i]]]

\* Line 80.
CliCutText(text) ==
    IF text # NullText /\ Len(text.s) > CliTextCut
    THEN StoredText(SubSeq(text.s, 1, CliTextCut) \o <<"...">>)
    ELSE text

\* Lines 76-81.
CliHit(x) ==
    [score |-> RoundDiv(x.s.num * ScoreScale, x.s.den),
     id |-> x.d.id,
     meta |-> x.d.meta,
     text |-> CliCutText(x.d.text)]

InitCli ==
    /\ pc = "cli_start"
    /\ docs \in {rows \in SeqsUpTo(CliDocPool, MaxDocs) : DistinctIds(rows)}
    /\ top \in 0..MaxTop
    /\ query = <<"a">> /\ qv = <<>>
    /\ provider = None /\ embed_calls = 0
    /\ events = <<>> /\ handles = <<>> /\ exc = NoExc /\ last = NoOp
    /\ cli_scored = <<>> /\ cli_out = <<>> /\ printed = <<>> /\ ok_calls = <<>>
    /\ role = None /\ match = <<>> /\ limit = 0 /\ min_len = 0
    /\ vec = <<>> /\ cos = NoCos
    /\ tags_file = SampleFile /\ fts_rows = <<>> /\ sem_rows = <<>> /\ project = None
    /\ merged = NotMerged
    /\ group = FALSE /\ ev_status = None /\ out = NoOutput
    /\ IdleTimes /\ IdleGroup /\ IdleEmbed /\ IdleBackfill
    /\ IdleDetect

restOfCli == <<docs, top, query, role, match, limit, min_len, vec, cos, inputVars, merged,
               group, ev_status, out, timeVars, groupVars, embedVars, backfillVars,
               detectVars>>

\* Line 59: log_event inserts the row and yields its handle.
CliEnter ==
    /\ pc = "cli_start"
    /\ events' = Append(events, RunningRow)
    /\ handles' = <<Len(events) + 1>>
    /\ last' = Op("enter", Len(events) + 1)
    /\ pc' = "cli_embed"
    /\ UNCHANGED <<restOfCli, qv, provider, embed_calls, exc, cliVars>>

\* Lines 60-71: the embedding arrives, the with-block ends, the rows are
\* read, scored and sorted.
CliEmbedAndScore ==
    /\ pc = "cli_embed"
    /\ embed_calls' = embed_calls + 1
    /\ provider' = "ok"
    /\ qv' \in QueryVectors
    /\ handles' = <<>>
    /\ last' = Op("leave", handles[1])
    /\ cli_scored' = SortBySimilarity(CliScored(docs, qv'), 1, <<>>)
    /\ pc' = "cli_loop"
    /\ UNCHANGED <<restOfCli, events, exc, cli_out, printed, ok_calls>>

\* Line 60: ollama_embed raises inside the with-block.
CliEmbedRaises ==
    /\ pc = "cli_embed"
    /\ embed_calls' = embed_calls + 1
    /\ \E kind \in ProviderFailures :
          /\ provider' = kind
          /\ exc' = ProviderError(kind)
          /\ events' = OnBodyException(events, handles[1], ProviderError(kind))
    /\ handles' = <<>>
    /\ last' = Op("raise", handles[1])
    /\ pc' = "crashed"
    /\ UNCHANGED <<restOfCli, qv, cliVars>>

\* Lines 74-84: one iteration of the loop over scored[:top]: the hit is
\* appended to out, ev.ok(extra={'results': len(out)}) is called and the
\* JSON document with the hits so far is printed.
CliLoopStep ==
    /\ pc = "cli_loop"
    /\ Len(cli_out) < Len(Prefix(cli_scored, top))
    /\ cli_out' = Append(cli_out, CliHit(cli_scored[Len(cli_out) + 1]))
    /\ events' = ok(events, 1)
    /\ last' = Op("ok", 1)
    /\ ok_calls' = Append(ok_calls, Len(cli_out'))
    /\ printed' = Append(printed, cli_out')
    /\ UNCHANGED <<restOfCli, pc, qv, provider, embed_calls, handles, exc, cli_scored>>

\* The loop is over and main() returns.
CliReturn ==
    /\ pc = "cli_loop"
    /\ Len(cli_out) = Len(Prefix(cli_scored, top))
    /\ pc' = "cli_done"
    /\ UNCHANGED <<restOfCli, qv, provider, embed_calls, ledgerVars, cliVars>>

NextCli ==
    \/ CliEnter
    \/ CliEmbedAndScore
    \/ CliEmbedRaises
    \/ CliLoopStep
    \/ CliReturn

SpecCli == InitCli /\ [][NextCli]_vars

\* C30: a run of the semantic_search CLI that ends without an exception
\* has printed exactly one JSON result, holding at most `top` hits, and has
\* marked its ledger event 'ok' exactly once, with `results` the number of
\* hits returned, also when the vector store yields no hit.
C30_OneResultOneOk ==
    pc = "cli_done" =>
        /\ Len(printed) = 1
        /\ Len(printed[1]) <= top
        /\ printed[1] = cli_out
        /\ ok_calls = <<Len(cli_out)>>
        /\ events[1].status = "ok"

=============================================================================
